---- MODULE Spec2Model ----
(***************************************************************************)
(* archaeologit: the separator stream splitter (util.split_file), the git  *)
(* log entry parser (git_log) and the parallel extract / cache / dispatch  *)
(* pipeline (excavator.excavate).                                          *)
(*                                                                         *)
(* A byte string is a sequence of one-byte tokens.  Printable bytes are    *)
(* written as themselves ("a", " ", "<"); the others are named: "NUL",     *)
(* "LF", "CR", "TAB", and "BAD" for a byte that is not valid UTF-8.        *)
(* "REPL" stands for the encoded replacement character U+FFFD.             *)
(***************************************************************************)
EXTENDS Integers, Sequences, FiniteSets, TLC

NUL == "NUL"
LF == "LF"
CR == "CR"
TAB == "TAB"
SP == " "
BAD == "BAD"
REPL == "REPL"

(***************************************************************************)
(* Bounds of the model.                                                    *)
(***************************************************************************)
\* longest stream given to split_file in SplitSpec
MaxLen == 4
\* largest read_size given to split_file in SplitSpec
MaxReadSize == 3

\* bytes the streams of SplitSpec are made of, and the separators tried
SplitBytes == {NUL, "a", "."}

(***************************************************************************)
(* Python helpers.                                                         *)
(***************************************************************************)
Min(a, b) == IF a < b THEN a ELSE b

\* s[a:b] for 0 <= a, with b clipped to len(s)
PySlice(s, a, b) == SubSeq(s, a + 1, Min(b, Len(s)))

\* ''.join(parts)
RECURSIVE Join(_)
Join(parts) ==
    IF parts = <<>> THEN <<>> ELSE Head(parts) \o Join(Tail(parts))

\* sep.join of parts with sep between them
RECURSIVE JoinWith(_, _)
JoinWith(parts, sep) ==
    IF parts = <<>> THEN <<>>
    ELSE IF Len(parts) = 1 THEN parts[1]
    ELSE parts[1] \o sep \o JoinWith(Tail(parts), sep)

\* all byte strings over alphabet of length at most n
RECURSIVE SeqsUpTo(_, _)
SeqsUpTo(alphabet, n) ==
    IF n = 0 THEN {<<>>}
    ELSE LET shorter == SeqsUpTo(alphabet, n - 1)
         IN  shorter \cup {Append(t, c) : t \in shorter, c \in alphabet}

\* the elements of a set of integers, ascending
Ascending(S) ==
    [k \in 1..Cardinality(S) |->
        CHOOSE p \in S : Cardinality({q \in S : q < p}) = k - 1]

\* data.split(sep) for a one-byte sep: the whole-buffer split, the pieces
\* between consecutive separators
PySplit(data, sep) ==
    LET at == Ascending({i \in 1..Len(data) : data[i] = sep})
        n == Len(at)
    IN  [k \in 1..(n + 1) |->
            SubSeq(data,
                   IF k = 1 THEN 1 ELSE at[k - 1] + 1,
                   IF k = n + 1 THEN Len(data) ELSE at[k] - 1)]

\* data.count(sep)
Count(data, sep) == Cardinality({i \in 1..Len(data) : data[i] = sep})

(***************************************************************************)
(* util.split_file                                                         *)
(***************************************************************************)
\* re.compile(re.escape(sep_char)) matched against one byte of the chunk:
\* the escaped pattern matches the separator literally
SepMatches(c, sep) == c = sep

\* [m.start() for m in compiled_sep.finditer(chunk)], 0-based, ascending
MatchStarts(chnk, sep) ==
    Ascending({i - 1 : i \in {k \in 1..Len(chnk) : SepMatches(chnk[k], sep)}})

\* the positions the for loop visits: the matches, and the chunk's last
\* position when it is not one of them
CheckPositions(chnk, sep) ==
    LET found == MatchStarts(chnk, sep)
        last_pos == Len(chnk) - 1
    IN  IF found = <<>> \/ found[Len(found)] # last_pos
        THEN Append(found, last_pos)
        ELSE found

\* one iteration of `for check_pos in check_positions`: the new buf, what
\* is yielded (nothing, or one segment) and the new cur_pos
ScanStepEager(bufr, chnk, cur, check_pos, sep) ==
    LET to_append == PySlice(chnk, cur, check_pos + 1)
    IN  IF to_append # <<>> /\ to_append[Len(to_append)] = sep
        THEN [buf |-> <<<<>>>>,
              yield |-> <<Join(Append(bufr,
                                      SubSeq(to_append, 1, Len(to_append) - 1)))>>,
              cur |-> check_pos + 1]
        ELSE [buf |-> <<<<>>>>,
              yield |-> <<Join(Append(bufr, to_append))>>,
              cur |-> check_pos + 1]

ScanStep(bufr, chnk, cur, check_pos, sep) ==
    LET to_append == PySlice(chnk, cur, check_pos + 1)
    IN  IF to_append # <<>> /\ to_append[Len(to_append)] = sep
        THEN [buf |-> <<<<>>>>,
              yield |-> <<Join(Append(bufr,
                                      SubSeq(to_append, 1, Len(to_append) - 1)))>>,
              cur |-> check_pos + 1]
        ELSE [buf |-> Append(bufr, to_append),
              yield |-> <<>>,
              cur |-> check_pos + 1]

\* `if buf: yield ''.join(buf)` after the read loop
FinalYieldIfData(bufr) == IF Join(bufr) # <<>> THEN <<Join(bufr)>> ELSE <<>>

FinalYield(bufr) == IF bufr # <<>> THEN <<Join(bufr)>> ELSE <<>>

\* the whole for loop over one chunk
RECURSIVE ScanChunk(_, _, _, _, _, _)
ScanChunk(bufr, out, chnk, checks, cur, sep) ==
    IF checks = <<>> THEN [buf |-> bufr, out |-> out]
    ELSE LET st == ScanStep(bufr, chnk, cur, Head(checks), sep)
         IN  ScanChunk(st.buf, out \o st.yield, chnk, Tail(checks), st.cur, sep)

\* list(split_file(fil, sep, size)) for a file holding data, read from pos
RECURSIVE SplitFrom(_, _, _, _, _, _)
SplitFrom(data, pos, bufr, out, sep, size) ==
    LET chnk == PySlice(data, pos, pos + size)
    IN  IF chnk = <<>> THEN out \o FinalYield(bufr)
        ELSE LET r == ScanChunk(bufr, out, chnk, CheckPositions(chnk, sep[1]),
                                0, sep[1])
             IN  SplitFrom(data, pos + Len(chnk), r.buf, r.out, sep, size)

\* the segments split_file yields; sep is a string of exactly one byte
split_file_all(data, sep, size) == SplitFrom(data, 0, <<<<>>>>, <<>>, sep, size)

(***************************************************************************)
(* git_log: the log entry parser                                           *)
(***************************************************************************)
\* what a function returns for Python's None
None == [none |-> TRUE]

IsNone(x) == "none" \in DOMAIN x

\* unicode.decode('utf-8', errors='replace'): a byte that is not valid
\* UTF-8 becomes the replacement character
uc(s) == [i \in 1..Len(s) |-> IF s[i] = BAD THEN REPL ELSE s[i]]

\* uc(s).encode('utf-8', errors='replace'): encoding never fails
utf8(s) == uc(s)

Whitespace == {SP, TAB, LF, CR}

\* not s.strip()
IsBlank(s) == \A i \in 1..Len(s) : s[i] \in Whitespace

\* line.rstrip('\r')
RECURSIVE RStripCR(_)
RStripCR(line) ==
    IF line # <<>> /\ line[Len(line)] = CR
    THEN RStripCR(SubSeq(line, 1, Len(line) - 1))
    ELSE line

\* line.startswith(prefix)
StartsWith(line, prefix) ==
    Len(line) >= Len(prefix) /\ SubSeq(line, 1, Len(prefix)) = prefix

\* '\n'.join(lines)
RECURSIVE JoinLines(_)
JoinLines(lines) ==
    IF lines = <<>> THEN <<>>
    ELSE IF Len(lines) = 1 THEN lines[1]
    ELSE lines[1] \o <<LF>> \o JoinLines(Tail(lines))

\* [f(x) for x in xs] written for lines
MapRStrip(lines) == [i \in 1..Len(lines) |-> RStripCR(lines[i])]

CommitMarker == <<"c", "o", "m", "m", "i", "t">>
AuthorMarker == <<"A", "u", "t", "h", "o", "r">>
DiffMarker == <<"d", "i", "f", "f">>
CommitHeader == CommitMarker \o <<SP>>
AuthorHeader == AuthorMarker \o <<":", SP>>

\* the index of the first line at or after `ind` (0-based) that starts
\* with 'diff', or len(lines)
RECURSIVE DiffIndex(_, _)
DiffIndex(lines, ind) ==
    IF ind < Len(lines) /\ ~StartsWith(lines[ind + 1], DiffMarker)
    THEN DiffIndex(lines, ind + 1)
    ELSE ind

_split_entry_header_no_author_check(entry) ==
    LET lines == MapRStrip(PySplit(entry, LF))
    IN  IF Len(lines) < 2 THEN None
        ELSE IF ~StartsWith(lines[1], CommitMarker) THEN None
        ELSE LET ind == DiffIndex(lines, 2)
             IN  [header_lines |-> SubSeq(lines, 1, ind),
                  diff_lines |-> SubSeq(lines, ind + 1, Len(lines))]

_split_entry_header_marker_dropped(entry) ==
    LET lines == MapRStrip(PySplit(entry, LF))
    IN  IF Len(lines) < 2 THEN None
        ELSE IF ~StartsWith(lines[1], CommitMarker) THEN None
        ELSE IF ~StartsWith(lines[2], AuthorMarker) THEN None
        ELSE LET ind == DiffIndex(lines, 2)
             IN  [header_lines |-> SubSeq(lines, 1, ind),
                  diff_lines |-> SubSeq(lines, ind + 2, Len(lines))]

_split_entry_header(entry) ==
    LET lines == MapRStrip(PySplit(entry, LF))
    IN  IF Len(lines) < 2 THEN None
        ELSE IF ~StartsWith(lines[1], CommitMarker) THEN None
        ELSE IF ~StartsWith(lines[2], AuthorMarker) THEN None
        ELSE LET ind == DiffIndex(lines, 2)
             IN  [header_lines |-> SubSeq(lines, 1, ind),
                  diff_lines |-> SubSeq(lines, ind + 1, Len(lines))]

\* line.split(' ', 1)[1] for a line that holds a space
AfterFirstSpace(line) ==
    LET i == CHOOSE k \in 1..Len(line) :
                 line[k] = SP /\ \A m \in 1..(k - 1) : line[m] # SP
    IN  SubSeq(line, i + 1, Len(line))

\* the value of the first line starting with `header`, or None
RECURSIVE _parse_header(_, _)
_parse_header(header, header_lines) ==
    IF header_lines = <<>> THEN None
    ELSE IF StartsWith(Head(header_lines), header)
         THEN [value |-> AfterFirstSpace(Head(header_lines))]
         ELSE _parse_header(header, Tail(header_lines))

\* `not value` for what _parse_header returned: None or the empty string
FalsyNoneOnly(v) == IsNone(v)

Falsy(v) == IsNone(v) \/ v.value = <<>>

\* NAME_AND_EMAIL_RE = "^([^<]+) <(.*)>$" matched at the start of author:
\* group 1 is a non-empty run without '<' that ' <' follows, group 2 runs
\* (without a line feed) to a '>' at the end of the string or before a
\* final line feed
NameEndsOrEmpty(author) ==
    {i \in 0..Len(author) :
        /\ \A k \in 1..i : author[k] # "<"
        /\ i + 2 <= Len(author)
        /\ author[i + 1] = SP
        /\ author[i + 2] = "<"}

NameEnds(author) ==
    {i \in 1..Len(author) :
        /\ \A k \in 1..i : author[k] # "<"
        /\ i + 2 <= Len(author)
        /\ author[i + 1] = SP
        /\ author[i + 2] = "<"}

EmailEnds(author, i) ==
    {j \in (i + 2)..(Len(author) - 1) :
        /\ author[j + 1] = ">"
        /\ \A k \in (i + 3)..j : author[k] # LF
        /\ \/ j + 1 = Len(author)
           \/ j + 2 = Len(author) /\ author[Len(author)] = LF}

Largest(S) == CHOOSE x \in S : \A y \in S : y <= x

parse_name_and_email_last(author) ==
    LET ends == {i \in 1..Len(author) :
                    /\ i + 2 <= Len(author)
                    /\ author[i + 1] = SP
                    /\ author[i + 2] = "<"
                    /\ EmailEnds(author, i) # {}}
    IN  IF ends = {} THEN None
        ELSE LET i == Largest(ends)
                 j == Largest(EmailEnds(author, i))
             IN  [name |-> SubSeq(author, 1, i),
                  email |-> SubSeq(author, i + 3, j)]

parse_name_and_email(author) ==
    LET ends == {i \in NameEnds(author) : EmailEnds(author, i) # {}}
    IN  IF ends = {} THEN None
        ELSE LET i == Largest(ends)
                 j == Largest(EmailEnds(author, i))
             IN  [name |-> SubSeq(author, 1, i),
                  email |-> SubSeq(author, i + 3, j)]

\* the loop of _parse_log_msg over the header lines from index i
RECURSIVE LogMsgFrom(_, _, _)
LogMsgFrom(header_lines, i, log_msg_lines) ==
    IF i > Len(header_lines) THEN log_msg_lines
    ELSE LET line == header_lines[i]
         IN  IF line = <<>>
             THEN LogMsgFrom(header_lines, i + 1, Append(log_msg_lines, line))
             ELSE IF line[1] \in {SP, TAB} /\ log_msg_lines # <<>>
             THEN LogMsgFrom(header_lines, i + 1, Append(log_msg_lines, line))
             ELSE IF log_msg_lines # <<>>
             THEN log_msg_lines
             ELSE LogMsgFrom(header_lines, i + 1, log_msg_lines)

\* the index of the first header line that is empty or indented: where a
\* message that could begin with an indented line would start
FirstEmptyOrIndented(header_lines) ==
    LET at == {k \in 1..Len(header_lines) :
                  \/ header_lines[k] = <<>>
                  \/ header_lines[k][1] \in {SP, TAB}}
    IN  IF at = {} THEN Len(header_lines) + 1
        ELSE CHOOSE k \in at : \A m \in at : k <= m

_parse_log_msg_from_indented(header_lines) ==
    LET i == FirstEmptyOrIndented(header_lines)
    IN  IF i > Len(header_lines) THEN <<>>
        ELSE LogMsgFrom(header_lines, i + 1, <<header_lines[i]>>)

_parse_log_msg(header_lines) == LogMsgFrom(header_lines, 1, <<>>)

\* LogEntry = namedtuple('LogEntry', 'commit author_name author_email
\* log_msg diff raw_log')
LogEntryDecodedRaw(commit, author_name, author_email, log_msg, diff, raw_log) ==
    [commit |-> commit, author_name |-> author_name,
     author_email |-> author_email, log_msg |-> log_msg, diff |-> diff,
     raw_log |-> [i \in 1..Len(raw_log) |->
                     IF raw_log[i] = BAD THEN REPL ELSE raw_log[i]]]

LogEntry(commit, author_name, author_email, log_msg, diff, raw_log) ==
    [commit |-> commit, author_name |-> author_name,
     author_email |-> author_email, log_msg |-> log_msg, diff |-> diff,
     raw_log |-> raw_log]

\* list(log_entry): the fields in the declared order
LogEntryFields(log_entry) ==
    <<log_entry.commit, log_entry.author_name, log_entry.author_email,
      log_entry.log_msg, log_entry.diff, log_entry.raw_log>>

\* a LogEntry, or None
_parse_log_entry(raw_log_entry) ==
    LET split_log_entry == _split_entry_header(utf8(raw_log_entry))
    IN  IF IsNone(split_log_entry) THEN None
        ELSE
        LET header_lines == split_log_entry.header_lines
            diff == JoinLines(split_log_entry.diff_lines)
            author == _parse_header(AuthorHeader, header_lines)
            commit == _parse_header(CommitHeader, header_lines)
        IN  IF IsBlank(diff) THEN None
            ELSE IF Falsy(author) THEN None
            ELSE LET parsed_author == parse_name_and_email(author.value)
                 IN  IF IsNone(parsed_author) THEN None
                     ELSE IF Falsy(commit) THEN None
                     ELSE LogEntry(uc(commit.value),
                                   uc(parsed_author.name),
                                   uc(parsed_author.email),
                                   uc(JoinLines(_parse_log_msg(header_lines))),
                                   uc(diff),
                                   raw_log_entry)

\* By default, read one meg at a time.
DEFAULT_READ_FILE_CHUNKED_READ_SIZE == 1048576

\* The log entries parse_raw_log_stream yields for a stream holding
\* `content`, in order: the segments of split_file that parse
RECURSIVE KeepParsed(_)
KeepParsed(segments) ==
    IF segments = <<>> THEN <<>>
    ELSE LET log_entry == _parse_log_entry(Head(segments))
         IN  (IF IsNone(log_entry) THEN <<>> ELSE <<log_entry>>)
             \o KeepParsed(Tail(segments))

parse_raw_log_stream(content) ==
    KeepParsed(split_file_all(content, <<NUL>>,
                              DEFAULT_READ_FILE_CHUNKED_READ_SIZE))

(***************************************************************************)
(* The project, the arguments of excavate and git's output.  A path is the *)
(* sequence of its components.                                             *)
(***************************************************************************)
project_dir == <<"proj">>
log_cache_dir == <<"cache">>
TmpDir == <<"tmp">>

\* os.path.join(a, b)
PathJoin(a, b) == a \o b

\* os.path.dirname(path)
Dirname(path) == SubSeq(path, 1, Len(path) - 1)

\* util.rel_fname(dirname, fname) for an fname under dirname
rel_fname_same(dirname, fname) == <<"log">>

rel_fname(dirname, fname) == SubSeq(fname, Len(dirname) + 1, Len(fname))

\* project.ls(project_dir): the files git tracks, as absolute paths
ls == << PathJoin(project_dir, <<"a.py">>),
         PathJoin(project_dir, <<"d", "b.py">>),
         PathJoin(project_dir, <<"README">>) >>

\* a compiled regular expression is the set of names its match() accepts
INTERESTING_FNAMES_RES == <<>>
BORING_FNAMES_RES == << {<<"README">>} >>

is_interesting_fname_boring_wins(fname, interesting_res, boring_res) ==
    LET matches_interesting ==
            \E k \in 1..Len(interesting_res) : fname \in interesting_res[k]
        matches_boring ==
            \E k \in 1..Len(boring_res) : fname \in boring_res[k]
    IN  IF boring_res # <<>> THEN ~matches_boring
        ELSE IF interesting_res # <<>> THEN matches_interesting
        ELSE TRUE

is_interesting_fname(fname, interesting_res, boring_res) ==
    LET matches_interesting ==
            \E k \in 1..Len(interesting_res) : fname \in interesting_res[k]
        matches_boring ==
            \E k \in 1..Len(boring_res) : fname \in boring_res[k]
    IN  IF boring_res # <<>> THEN ~matches_boring \/ matches_interesting
        ELSE IF interesting_res # <<>> THEN matches_interesting
        ELSE TRUE

RECURSIVE InterestingFrom(_, _, _, _)
InterestingFrom(fnames, dir, interesting_res, boring_res) ==
    IF fnames = <<>> THEN <<>>
    ELSE (IF is_interesting_fname(rel_fname(dir, Head(fnames)),
                                  interesting_res, boring_res)
          THEN <<Head(fnames)>> ELSE <<>>)
         \o InterestingFrom(Tail(fnames), dir, interesting_res, boring_res)

_interesting_fnames_in_proj(dir, interesting_res, boring_res) ==
    InterestingFrom(ls, dir, interesting_res, boring_res)

\* the fact finders given to excavate: a function name and an external exe
FACT_FINDERS == << [kind |-> "str", name |-> "facts.author"],
                   [kind |-> "list", name |-> "wc"] >>

\* fact finders the second of which names a function no module defines
UNRESOLVABLE_FACT_FINDERS == << [kind |-> "str", name |-> "facts.author"],
                                [kind |-> "str", name |-> "no.such.func"] >>

\* run_dig's summarizer, which writes the fact to stdout
_write_to_stdout == [callable |-> "_write_to_stdout"]

\* the summarizer arguments the runs are given
Summarizers == {_write_to_stdout, None}

\* the fact_finders arguments the runs are given
FinderConfigs == {FACT_FINDERS, UNRESOLVABLE_FACT_FINDERS}

\* the qualified names that name a function on the python path
Importable == {"facts.author"}

\* what a call raised instead of returning
Raised(x) == "raised" \in DOMAIN x

\* util.funcify(name): the function so named, or the failure to load it
funcify(name) ==
    IF name \in Importable THEN [callable |-> name]
    ELSE [raised |-> "ImportError"]

_funcify_fact_finder_lenient(list_or_str) == [callable |-> list_or_str.name]

\* a list describes an external process and is wrapped without being
\* looked at; a str is loaded
_funcify_fact_finder(list_or_str) ==
    IF list_or_str.kind = "list" THEN [callable |-> list_or_str.name]
    ELSE funcify(list_or_str.name)

\* the relative file name as the str the finders are passed
FnameStr(fname) ==
    JoinWith([i \in 1..Len(fname) |-> <<fname[i]>>], <<"/">>)

\* _wrap: '\0'.join([util.utf8(x) for x in [fname] + list(log_entry)]),
\* the bytes written to the file that becomes the process's stdin
_wrap_stdin_fields_only(fname, log_entry) ==
    LET xs == LogEntryFields(log_entry)
    IN  JoinWith([i \in 1..Len(xs) |-> utf8(xs[i])], <<NUL>>)

_wrap_stdin(fname, log_entry) ==
    LET xs == <<FnameStr(fname)>> \o LogEntryFields(log_entry)
    IN  JoinWith([i \in 1..Len(xs) |-> utf8(xs[i])], <<NUL>>)

\* util.wrap_popen(args, stdin_fil=fil) read to the end: all that the
\* process wrote to its stdout; the process of FACT_FINDERS prints the
\* number of bytes it read and a line feed
wrap_popen(args, stdin) == <<ToString(Len(stdin)), LF>>

\* what finder(fname, log_entry) writes to a process's stdin: nothing for
\* a loaded function, which starts no process
FinderStdin(finder, fname, log_entry) ==
    IF finder.kind = "list" THEN _wrap_stdin(fname, log_entry) ELSE None

\* the fact a finder returns for (fname, log_entry): `value` is what the
\* call returns, out_fil.read() for an external process and the author's
\* name for the function of FACT_FINDERS; the other fields say which call
\* it came from
FinderFact(finder, fname, log_entry) ==
    [finder |-> finder.name, fname |-> fname, commit |-> log_entry.commit,
     value |-> IF finder.kind = "list"
               THEN wrap_popen(finder.name,
                               FinderStdin(finder, fname, log_entry))
               ELSE log_entry.author_name]

\* one raw log entry as `git log -p` prints it, and one without a diff
\* (a binary file, a pure rename)
Entry(c) ==
    CommitHeader \o <<c, LF>>
    \o AuthorHeader \o <<"a", SP, "<", "e", ">", LF>>
    \o <<LF, SP, "m", LF>>
    \o DiffMarker

NoDiffEntry(c) ==
    CommitHeader \o <<c, LF>> \o AuthorHeader \o <<"a", SP, "<", "e", ">">>

\* what `git log -z --reverse -p ... -- fname` prints: the entries oldest
\* first, NUL between them
GitLog(fname) ==
    IF fname = PathJoin(project_dir, <<"a.py">>)
    THEN Entry("1") \o <<NUL>> \o NoDiffEntry("2") \o <<NUL>> \o Entry("3")
    ELSE IF fname = PathJoin(project_dir, <<"d", "b.py">>)
    THEN Entry("4") \o <<NUL>>
    ELSE Entry("5")

\* most worker processes a run is given (num_procs)
MaxProcs == 2
\* bytes shutil.copyfile moves per write
CopyBufSize == 40

VARIABLES
    \* split_file's generator frame
    fil_data,          \* the bytes of the stream `fil`
    fil_pos,           \* the stream's read position
    sep_char,          \* the separator argument, a string
    read_size,         \* the read_size argument
    chunk,             \* the chunk last read
    check_positions,   \* the positions of the for loop still to visit
    cur_pos,
    buf,
    yielded,           \* the segments yielded so far, in order
    reads,             \* the sizes asked of fil.read so far, in order
    split_pc,          \* "start", "read", "scan", "done", "error" (ValueError)
    \* one call of a function of git_log
    parse_fn,          \* the function called
    parse_in,          \* its argument: a byte string, or a record of arguments
    parse_out,         \* what it returned
    parse_pc,          \* "idle", "start", "done"
    \* the file system: fs maps each existing file's path to its bytes
    fs,
    dirs,              \* the directories that exist under the cache root
    \* one run of excavate
    use_cached_logs,
    num_procs,
    fact_finders,
    summarizer,        \* the summarizer argument: a callable, or None
    pc,                \* where the main process is in excavate
    fnames_to_excavate,
    rel_and_log_z_fnames,
    log_async_results, \* job ids, in submission order
    facts_async_results,
    idx,               \* the index of the loop the main process is in
    promo,             \* the promotion in progress: rel_name, tmp_file, pos
    facts,             \* the facts of the result in hand not yet summarized
    jobs,              \* the pool's jobs, in submission order
    summarized,        \* the facts the summarizer was called with, in order
    \* history
    git_calls,         \* git commands this run has executed, by kind
    completed,         \* the fact-finding jobs in their completion order
    calls,             \* per file, the finder calls made for it, in order
    fs0                \* the file system as it was when this run started

splitVars == <<fil_data, fil_pos, sep_char, read_size, chunk, check_positions,
               cur_pos, buf, yielded, reads, split_pc>>

parseVars == <<parse_fn, parse_in, parse_out, parse_pc>>

\* the frames of the functions run on their own
pureVars == <<splitVars, parseVars>>

fsVars == <<fs, dirs>>

cfgVars == <<use_cached_logs, num_procs, fact_finders, summarizer>>

mainVars == <<pc, fnames_to_excavate, rel_and_log_z_fnames, log_async_results,
              facts_async_results, idx, promo, facts, summarized>>

histVars == <<git_calls, completed, calls, fs0>>

runVars == <<fsVars, cfgVars, mainVars, jobs, histVars>>

vars == <<pureVars, runVars>>

(***************************************************************************)
(* split_file as a generator                                               *)
(***************************************************************************)
SplitIdle ==
    /\ fil_data = <<>>
    /\ sep_char = <<NUL>>
    /\ read_size = 1
    /\ fil_pos = 0
    /\ chunk = <<>>
    /\ check_positions = <<>>
    /\ cur_pos = 0
    /\ buf = <<>>
    /\ yielded = <<>>
    /\ reads = <<>>
    /\ split_pc = "idle"

\* if len(sep_char) != 1: raise ValueError(...)
SepIsEmpty(sep) == Len(sep) = 0

SepIsNotOneChar(sep) == Len(sep) # 1

\* the generator is started: the separator check, then buf = ['']
SplitStart ==
    /\ split_pc = "start"
    /\ IF SepIsNotOneChar(sep_char)
       THEN split_pc' = "error" /\ buf' = buf
       ELSE split_pc' = "read" /\ buf' = <<<<>>>>
    /\ UNCHANGED <<fil_data, fil_pos, sep_char, read_size, chunk,
                   check_positions, cur_pos, yielded, reads>>

\* chunk = fil.read(read_size) returned data: the loop's positions are set
SplitRead ==
    /\ split_pc = "read"
    /\ LET got == PySlice(fil_data, fil_pos, fil_pos + read_size)
       IN  /\ got # <<>>
           /\ chunk' = got
           /\ fil_pos' = fil_pos + Len(got)
           /\ check_positions' = CheckPositions(got, sep_char[1])
    /\ reads' = Append(reads, read_size)
    /\ cur_pos' = 0
    /\ split_pc' = "scan"
    /\ UNCHANGED <<fil_data, sep_char, read_size, buf, yielded>>

\* one iteration of the for loop over check_positions
SplitScan ==
    /\ split_pc = "scan"
    /\ check_positions # <<>>
    /\ LET st == ScanStep(buf, chunk, cur_pos, Head(check_positions),
                          sep_char[1])
       IN  /\ buf' = st.buf
           /\ yielded' = yielded \o st.yield
           /\ cur_pos' = st.cur
    /\ check_positions' = Tail(check_positions)
    /\ split_pc' = IF Tail(check_positions) = <<>> THEN "read" ELSE "scan"
    /\ UNCHANGED <<fil_data, fil_pos, sep_char, read_size, chunk, reads>>

\* fil.read returned nothing: break, the last yield, the generator ends
SplitFinish ==
    /\ split_pc = "read"
    /\ PySlice(fil_data, fil_pos, fil_pos + read_size) = <<>>
    /\ reads' = Append(reads, read_size)
    /\ yielded' = yielded \o FinalYield(buf)
    /\ split_pc' = "done"
    /\ UNCHANGED <<fil_data, fil_pos, sep_char, read_size, chunk,
                   check_positions, cur_pos, buf>>

\* no function of git_log is being run on its own
ParseIdle ==
    /\ parse_fn = "none"
    /\ parse_in = <<>>
    /\ parse_out = None
    /\ parse_pc = "idle"

(***************************************************************************)
(* excavator: the pool                                                     *)
(***************************************************************************)
\* pool.apply_async(func, args): a job waiting in the pool's task queue
NewJob(func, fname, log_z_fname) ==
    [func |-> func, fname |-> fname, log_z_fname |-> log_z_fname,
     state |-> "queued", worker |-> 0, step |-> "new", tmp_file |-> <<>>,
     resolved |-> <<>>, entries |-> <<>>, ei |-> 1, fi |-> 1,
     result |-> <<>>]

JobIds == 1..Len(jobs)

Running(j) == jobs[j].state = "running"

FinishedOrPending(j) == TRUE

Finished(j) == jobs[j].state \in {"ok", "failed"}

\* a worker process that is executing no job
FreeAlways(w) == TRUE

Free(w) == \A j \in JobIds : ~(Running(j) /\ jobs[j].worker = w)

\* the workers are daemonic children of the main process: they run while
\* it is in excavate and end with it
PoolAlive == pc \notin {"done", "failed", "interrupted"}

\* a free worker takes the job at the head of the task queue
WorkerTake(w) ==
    /\ PoolAlive
    /\ pc # "start"
    /\ Free(w)
    /\ \E j \in JobIds :
          /\ jobs[j].state = "queued"
          /\ \A k \in 1..(j - 1) : jobs[k].state # "queued"
          /\ jobs' = [jobs EXCEPT ![j].state = "running", ![j].worker = w]
    /\ UNCHANGED <<pureVars, fsVars, cfgVars, mainVars, histVars>>

\* the name of the temporary file job j creates: one no other file has
TmpName(j) == PathJoin(TmpDir, <<j>>)

\* _extract_log: rel_fname, then tempfile.NamedTemporaryFile(delete=False)
ExtractCreateTmp(j) ==
    /\ PoolAlive
    /\ Running(j)
    /\ jobs[j].func = "_extract_log"
    /\ jobs[j].step = "new"
    /\ fs' = [p \in DOMAIN fs \cup {TmpName(j)} |->
                 IF p = TmpName(j) THEN <<>> ELSE fs[p]]
    /\ jobs' = [jobs EXCEPT ![j].step = "git", ![j].tmp_file = TmpName(j)]
    /\ UNCHANGED <<pureVars, dirs, cfgVars, mainVars, histVars>>

\* _extract_log: git rev-parse and git log returned 0; the output is
\* copied to the temporary file, which is closed; the job returns
\* (rel_name, named_tmp_file.name)
ExtractGitOk(j) ==
    /\ PoolAlive
    /\ Running(j)
    /\ jobs[j].func = "_extract_log"
    /\ jobs[j].step = "git"
    /\ fs' = [fs EXCEPT ![jobs[j].tmp_file] = GitLog(jobs[j].fname)]
    /\ jobs' = [jobs EXCEPT
                   ![j].state = "ok",
                   ![j].step = "returned",
                   ![j].result = <<rel_fname(project_dir, jobs[j].fname),
                                   jobs[j].tmp_file>>]
    /\ git_calls' = [git_calls EXCEPT !.rev_parse = @ + 1, !.log = @ + 1]
    /\ UNCHANGED <<pureVars, dirs, cfgVars, mainVars, completed, calls, fs0>>

\* _extract_log: git returned non-zero, git_cmd raises GitExeException
ExtractGitFail(j) ==
    /\ PoolAlive
    /\ Running(j)
    /\ jobs[j].func = "_extract_log"
    /\ jobs[j].step = "git"
    /\ jobs' = [jobs EXCEPT ![j].state = "failed", ![j].step = "raised",
                            ![j].result = <<"GitExeException">>]
    /\ git_calls' = [git_calls EXCEPT !.rev_parse = @ + 1, !.log = @ + 1]
    /\ UNCHANGED <<pureVars, fsVars, cfgVars, mainVars, completed, calls, fs0>>

\* finders = [_funcify_fact_finder(f) for f in fact_finders] in job j: the
\* descriptors _funcify_fact_finder is called on, in order, all of them or
\* up to the first for which it raises
ResolvedOncePerWorker(descriptors, j) ==
    IF \E k \in 1..Len(jobs) :
           /\ k # j
           /\ jobs[k].worker = jobs[j].worker
           /\ jobs[k].resolved # <<>>
    THEN <<>>
    ELSE [k \in 1..Len(descriptors) |-> k]

ResolvedBy(descriptors, j) ==
    LET bad == {k \in 1..Len(descriptors) :
                   Raised(_funcify_fact_finder(descriptors[k]))}
        n == IF bad = {} THEN Len(descriptors)
             ELSE CHOOSE k \in bad : \A m \in bad : k <= m
    IN  [k \in 1..n |-> k]

\* _find_facts: the finders are made, the log file is opened and its
\* entries parsed; a job with nothing to call returns at once.  A finder
\* that cannot be made ends the job before the file is opened.
FactsOpen(j) ==
    /\ PoolAlive
    /\ Running(j)
    /\ jobs[j].func = "_find_facts"
    /\ jobs[j].step = "new"
    /\ IF \E k \in 1..Len(fact_finders) :
              Raised(_funcify_fact_finder(fact_finders[k]))
       THEN /\ jobs' = [jobs EXCEPT ![j].state = "failed",
                                    ![j].step = "raised",
                                    ![j].resolved = ResolvedBy(fact_finders, j),
                                    ![j].result = <<"ImportError">>]
            /\ completed' = completed
       ELSE IF jobs[j].log_z_fname \notin DOMAIN fs
       THEN /\ jobs' = [jobs EXCEPT ![j].state = "failed",
                                    ![j].step = "raised",
                                    ![j].resolved = ResolvedBy(fact_finders, j),
                                    ![j].result = <<"IOError">>]
            /\ completed' = completed
       ELSE LET entries == parse_raw_log_stream(fs[jobs[j].log_z_fname])
                empty == entries = <<>> \/ fact_finders = <<>>
            IN  /\ jobs' = [jobs EXCEPT
                               ![j].resolved = ResolvedBy(fact_finders, j),
                               ![j].entries = entries,
                               ![j].step = IF empty THEN "returned" ELSE "call",
                               ![j].state = IF empty THEN "ok" ELSE "running"]
                /\ completed' = IF empty THEN Append(completed, j)
                                ELSE completed
    /\ UNCHANGED <<pureVars, fsVars, cfgVars, mainVars, git_calls, calls, fs0>>

\* _find_facts: the loop position after the call at (ei, fi), and whether
\* that call was the last: for log_entry in ...: for finder in finders
NextCallFinderMajor(ei, fi, n_entries) ==
    [ei |-> IF ei = n_entries THEN 1 ELSE ei + 1,
     fi |-> IF ei = n_entries THEN fi + 1 ELSE fi,
     last |-> ei = n_entries /\ fi = Len(fact_finders)]

NextCall(ei, fi, n_entries) ==
    [ei |-> IF fi = Len(fact_finders) THEN ei + 1 ELSE ei,
     fi |-> IF fi = Len(fact_finders) THEN 1 ELSE fi + 1,
     last |-> fi = Len(fact_finders) /\ ei = n_entries]

\* _find_facts: facts.append(finder(fname, log_entry)) for the next finder
\* of the current entry; after the last call the job returns facts
FactsCall(j) ==
    /\ PoolAlive
    /\ Running(j)
    /\ jobs[j].func = "_find_facts"
    /\ jobs[j].step = "call"
    /\ LET job == jobs[j]
           log_entry == job.entries[job.ei]
           finder == fact_finders[job.fi]
           next == NextCall(job.ei, job.fi, Len(job.entries))
       IN  /\ jobs' = [jobs EXCEPT
                          ![j].result = Append(@, FinderFact(finder, job.fname,
                                                             log_entry)),
                          ![j].fi = next.fi,
                          ![j].ei = next.ei,
                          ![j].step = IF next.last THEN "returned" ELSE "call",
                          ![j].state = IF next.last THEN "ok" ELSE "running"]
           /\ calls' = [calls EXCEPT ![job.fname] =
                           Append(@, [job |-> j, worker |-> job.worker,
                                      commit |-> log_entry.commit,
                                      ei |-> job.ei, fi |-> job.fi,
                                      stdin |-> FinderStdin(finder, job.fname,
                                                            log_entry),
                                      raised |-> FALSE])]
           /\ completed' = IF next.last THEN Append(completed, j) ELSE completed
    /\ UNCHANGED <<pureVars, fsVars, cfgVars, mainVars, git_calls, fs0>>

\* what becomes of the job when finder(fname, log_entry) raises: nothing
\* in _find_facts catches it, the job ends with the exception and the
\* facts list is lost with the frame
AfterFinderRaisedPartial(job) ==
    [job EXCEPT !.state = "ok", !.step = "returned"]

AfterFinderRaised(job) ==
    [job EXCEPT !.state = "failed", !.step = "raised",
                !.result = <<"FinderError">>]

\* _find_facts: the finder called for the current entry raises (a function
\* that raises, an external process that exits non-zero)
FactsCallFail(j) ==
    /\ PoolAlive
    /\ Running(j)
    /\ jobs[j].func = "_find_facts"
    /\ jobs[j].step = "call"
    /\ LET job == jobs[j]
       IN  /\ jobs' = [jobs EXCEPT ![j] = AfterFinderRaised(job)]
           /\ calls' = [calls EXCEPT ![job.fname] =
                           Append(@, [job |-> j, worker |-> job.worker,
                                      commit |-> job.entries[job.ei].commit,
                                      ei |-> job.ei, fi |-> job.fi,
                                      stdin |-> FinderStdin(
                                                    fact_finders[job.fi],
                                                    job.fname,
                                                    job.entries[job.ei]),
                                      raised |-> TRUE])]
    /\ UNCHANGED <<pureVars, fsVars, cfgVars, mainVars, git_calls, completed,
                   fs0>>

(***************************************************************************)
(* excavator: the main process                                             *)
(***************************************************************************)
\* os.path.exists(path)
ExistsNever(path) == FALSE

Exists(path) == path \in DOMAIN fs

_should_get_log_inverted(log_z_fname, use_cached) ==
    IF ~use_cached THEN TRUE ELSE Exists(log_z_fname)

_should_get_log_validating(log_z_fname, use_cached) ==
    IF ~use_cached THEN TRUE
    ELSE ~Exists(log_z_fname) \/ fs[log_z_fname] = <<>>

_should_get_log_always(log_z_fname, use_cached) == TRUE

_should_get_log_if_missing(log_z_fname, use_cached) == ~Exists(log_z_fname)

_should_get_log(log_z_fname, use_cached) ==
    IF ~use_cached THEN TRUE ELSE ~Exists(log_z_fname)

\* every directory from the root down to path: what os.makedirs creates
AncestorsNone(path) == {}

Ancestors(path) == {SubSeq(path, 1, n) : n \in 1..Len(path)}

\* the file system with file path holding data / without file path
WithFile(path, data) ==
    [p \in DOMAIN fs \cup {path} |-> IF p = path THEN data ELSE fs[p]]

WithoutFile(path) == [p \in DOMAIN fs \ {path} |-> fs[p]]

NoGitCalls == [ls_tree |-> 0, rev_parse |-> 0, log |-> 0]

NoCalls == [f \in {rel_fname(project_dir, ls[k]) : k \in 1..Len(ls)} |-> <<>>]

\* excavate up to _extract_logs: the pool is made and the interesting
\* files of the project are listed, which runs `git ls-tree`
ListInteresting ==
    /\ pc = "start"
    /\ fnames_to_excavate' =
           _interesting_fnames_in_proj(project_dir, INTERESTING_FNAMES_RES,
                                       BORING_FNAMES_RES)
    /\ git_calls' = [git_calls EXCEPT !.ls_tree = @ + 1]
    /\ idx' = 1
    /\ pc' = IF fnames_to_excavate' = <<>> THEN "close" ELSE "extract_submit"
    /\ UNCHANGED <<pureVars, fsVars, cfgVars, rel_and_log_z_fnames,
                   log_async_results, facts_async_results, promo, facts,
                   summarized, jobs, completed, calls, fs0>>

\* _extract_logs, first loop: one file's cache path, and its extraction
\* job if _should_get_log says so
SubmitExtract ==
    /\ pc = "extract_submit"
    /\ LET fname == fnames_to_excavate[idx]
           rel_name == rel_fname(project_dir, fname)
           log_z_fname == PathJoin(log_cache_dir, rel_name)
           get == _should_get_log(log_z_fname, use_cached_logs)
           last == idx = Len(fnames_to_excavate)
       IN  /\ rel_and_log_z_fnames' =
                  Append(rel_and_log_z_fnames, <<rel_name, log_z_fname>>)
           /\ jobs' = IF get
                      THEN Append(jobs, NewJob("_extract_log", fname,
                                               log_z_fname))
                      ELSE jobs
           /\ log_async_results' = IF get
                                   THEN Append(log_async_results, Len(jobs) + 1)
                                   ELSE log_async_results
           /\ idx' = IF last THEN 1 ELSE idx + 1
           /\ pc' = IF ~last THEN "extract_submit"
                    ELSE IF log_async_results' = <<>> THEN "facts_submit"
                    ELSE "extract_wait"
    /\ UNCHANGED <<pureVars, fsVars, cfgVars, fnames_to_excavate,
                   facts_async_results, promo, facts, summarized, histVars>>

\* the loop `for res in ...` over results is at its last result
LastResultEarly(results, i) == TRUE

LastResult(results, i) == i = Len(results)

\* where the main process is after res.get() raised what an extraction job
\* raised: nothing in _extract_logs or excavate catches it
AfterExtractFailureSkip ==
    [pc |-> IF LastResult(log_async_results, idx) THEN "facts_submit"
            ELSE "extract_wait",
     idx |-> IF LastResult(log_async_results, idx) THEN 1 ELSE idx + 1]

AfterExtractFailure == [pc |-> "failed", idx |-> idx]

\* _extract_logs, second loop: res.get() returns the job's result, or
\* raises what the job raised
GetExtractResult ==
    /\ pc = "extract_wait"
    /\ LET j == log_async_results[idx]
       IN  /\ Finished(j)
           /\ IF jobs[j].state = "ok"
              THEN /\ promo' = [rel_name |-> jobs[j].result[1],
                                tmp_file |-> jobs[j].result[2],
                                pos |-> 0]
                   /\ pc' = "promote_mkdir"
                   /\ idx' = idx
              ELSE /\ promo' = promo
                   /\ pc' = AfterExtractFailure.pc
                   /\ idx' = AfterExtractFailure.idx
    /\ UNCHANGED <<pureVars, fsVars, cfgVars, fnames_to_excavate,
                   rel_and_log_z_fnames, log_async_results,
                   facts_async_results, facts, summarized, jobs,
                   histVars>>

\* util.ensure_containing_dir_exists(log_z_fname)
PromoteMkdir ==
    /\ pc = "promote_mkdir"
    /\ dirs' = dirs \cup Ancestors(Dirname(PathJoin(log_cache_dir,
                                                    promo.rel_name)))
    /\ pc' = "promote_open"
    /\ UNCHANGED <<pureVars, fs, cfgVars, fnames_to_excavate,
                   rel_and_log_z_fnames, log_async_results,
                   facts_async_results, idx, promo, facts, summarized, jobs,
                   histVars>>

\* shutil.copyfile opens log_z_fname for writing: the file is created, or
\* emptied if it was there
PromoteOpen ==
    /\ pc = "promote_open"
    /\ fs' = WithFile(PathJoin(log_cache_dir, promo.rel_name), <<>>)
    /\ pc' = IF fs[promo.tmp_file] = <<>> THEN "promote_unlink"
             ELSE "promote_write"
    /\ UNCHANGED <<pureVars, dirs, cfgVars, fnames_to_excavate,
                   rel_and_log_z_fnames, log_async_results,
                   facts_async_results, idx, promo, facts, summarized, jobs,
                   histVars>>

\* shutil.copyfile: the loop ends when the source has no more bytes
CopyDoneAfterOneBuffer(pos, data) == TRUE

CopyDone(pos, data) == pos >= Len(data)

\* shutil.copyfile writes the next buffer of the temporary file; after
\* the last one both files are closed
PromoteWrite ==
    /\ pc = "promote_write"
    /\ LET log_z_fname == PathJoin(log_cache_dir, promo.rel_name)
           data == fs[promo.tmp_file]
           piece == PySlice(data, promo.pos, promo.pos + CopyBufSize)
       IN  /\ fs' = [fs EXCEPT ![log_z_fname] = @ \o piece]
           /\ promo' = [promo EXCEPT !.pos = @ + Len(piece)]
           /\ pc' = IF CopyDone(promo.pos + Len(piece), data)
                    THEN "promote_unlink" ELSE "promote_write"
    /\ UNCHANGED <<pureVars, dirs, cfgVars, fnames_to_excavate,
                   rel_and_log_z_fnames, log_async_results,
                   facts_async_results, idx, facts, summarized, jobs,
                   histVars>>

\* os.unlink(tmp_file), and on to the next result
PromoteUnlink ==
    /\ pc = "promote_unlink"
    /\ fs' = WithoutFile(promo.tmp_file)
    /\ LET last == LastResult(log_async_results, idx)
       IN  /\ idx' = IF last THEN 1 ELSE idx + 1
           /\ pc' = IF last THEN "facts_submit" ELSE "extract_wait"
    /\ UNCHANGED <<pureVars, dirs, cfgVars, fnames_to_excavate,
                   rel_and_log_z_fnames, log_async_results,
                   facts_async_results, promo, facts, summarized, jobs,
                   histVars>>

\* the jobs excavate submits for one (rel_name, log_z_fname)
FactsJobsPerFinder(rel_name, log_z_fname) ==
    [k \in 1..Len(fact_finders) |->
        NewJob("_find_facts", rel_name, log_z_fname)]

FactsJobs(rel_name, log_z_fname) ==
    <<NewJob("_find_facts", rel_name, log_z_fname)>>

\* excavate, first loop: pool.apply_async(_find_facts, ...) for one file
SubmitFacts ==
    /\ pc = "facts_submit"
    /\ LET rel_name == rel_and_log_z_fnames[idx][1]
           log_z_fname == rel_and_log_z_fnames[idx][2]
           last == idx = Len(rel_and_log_z_fnames)
           new == FactsJobs(rel_name, log_z_fname)
       IN  /\ jobs' = jobs \o new
           /\ facts_async_results' =
                  facts_async_results
                  \o [k \in 1..Len(new) |-> Len(jobs) + k]
           /\ idx' = IF last THEN 1 ELSE idx + 1
           /\ pc' = IF last THEN "facts_wait" ELSE "facts_submit"
    /\ UNCHANGED <<pureVars, fsVars, cfgVars, fnames_to_excavate,
                   rel_and_log_z_fnames, log_async_results, promo, facts,
                   summarized, histVars>>

\* where excavate goes once the facts of result idx are all summarized
AfterResultFirstOnly == "close"

AfterResult == IF idx = Len(facts_async_results) THEN "close" ELSE "facts_wait"

\* the result the loop `for res in facts_async_results` waits on
ResultAwaitedAsCompleted ==
    IF idx <= Len(completed) THEN completed[idx]
    ELSE CHOOSE j \in {facts_async_results[k] :
                          k \in 1..Len(facts_async_results)} :
             \A n \in 1..Len(completed) : completed[n] # j

ResultAwaited == facts_async_results[idx]

\* what res.get returns for the finished job j: the list _find_facts
\* returned
res_get_reversed(j) ==
    [n \in 1..Len(jobs[j].result) |->
        jobs[j].result[Len(jobs[j].result) + 1 - n]]

res_get(j) == jobs[j].result

\* excavate, second loop: facts = res.get(REALLY_LONG_TIME)
GetFactsResult ==
    /\ pc = "facts_wait"
    /\ LET j == ResultAwaited
       IN  /\ Finished(j)
           /\ IF jobs[j].state = "ok"
              THEN /\ facts' = res_get(j)
                   /\ pc' = IF res_get(j) = <<>> THEN AfterResult
                            ELSE "summarize"
                   /\ idx' = IF res_get(j) = <<>> THEN idx + 1 ELSE idx
              ELSE /\ facts' = facts
                   /\ pc' = "failed"
                   /\ idx' = idx
    /\ UNCHANGED <<pureVars, fsVars, cfgVars, fnames_to_excavate,
                   rel_and_log_z_fnames, log_async_results,
                   facts_async_results, promo, summarized, jobs, histVars>>

\* summarizer(fact) for the next fact of the result in hand; calling None
\* raises TypeError, which nothing in excavate catches
Summarize ==
    /\ pc = "summarize"
    /\ IF IsNone(summarizer)
       THEN /\ pc' = "failed"
            /\ UNCHANGED <<summarized, facts, idx>>
       ELSE /\ summarized' = Append(summarized, Head(facts))
            /\ facts' = Tail(facts)
            /\ pc' = IF Tail(facts) = <<>> THEN AfterResult ELSE "summarize"
            /\ idx' = IF Tail(facts) = <<>> THEN idx + 1 ELSE idx
    /\ UNCHANGED <<pureVars, fsVars, cfgVars, fnames_to_excavate,
                   rel_and_log_z_fnames, log_async_results,
                   facts_async_results, promo, jobs, histVars>>

\* pool.close(); pool.join(); return summarizer
ClosePool ==
    /\ pc = "close"
    /\ \A j \in JobIds : Finished(j)
    /\ pc' = "done"
    /\ UNCHANGED <<pureVars, fsVars, cfgVars, fnames_to_excavate,
                   rel_and_log_z_fnames, log_async_results,
                   facts_async_results, idx, promo, facts, summarized, jobs,
                   histVars>>

\* the run is interrupted (the operator's interrupt, a crash): the main
\* process and the workers are gone, and with them what they held in
\* memory; the files, and what the summarizer was given, stay
Interrupt ==
    /\ pc \notin {"done", "failed", "interrupted"}
    /\ pc' = "interrupted"
    /\ fnames_to_excavate' = <<>>
    /\ rel_and_log_z_fnames' = <<>>
    /\ log_async_results' = <<>>
    /\ facts_async_results' = <<>>
    /\ idx' = 1
    /\ promo' = [rel_name |-> <<>>, tmp_file |-> <<>>, pos |-> 0]
    /\ facts' = <<>>
    /\ jobs' = <<>>
    /\ completed' = <<>>
    /\ calls' = NoCalls
    /\ UNCHANGED <<pureVars, fsVars, cfgVars, summarized, git_calls, fs0>>

\* what excavate starts from
FreshRun ==
    /\ pc = "start"
    /\ fnames_to_excavate = <<>>
    /\ rel_and_log_z_fnames = <<>>
    /\ log_async_results = <<>>
    /\ facts_async_results = <<>>
    /\ idx = 1
    /\ promo = [rel_name |-> <<>>, tmp_file |-> <<>>, pos |-> 0]
    /\ facts = <<>>
    /\ summarized = <<>>
    /\ jobs = <<>>
    /\ git_calls = NoGitCalls
    /\ completed = <<>>
    /\ calls = NoCalls

\* the files under the cache directory
CacheFiles == {p \in DOMAIN fs : StartsWith(p, log_cache_dir)}

\* excavate is run again over the cache directory the earlier runs left.
\* No run opens a temporary file of another run, so the temporary files
\* the ended run left behind are followed no further.
StartRun ==
    /\ pc \in {"done", "failed", "interrupted"}
    /\ use_cached_logs' \in BOOLEAN
    /\ num_procs' \in 1..MaxProcs
    /\ fact_finders' \in FinderConfigs
    /\ summarizer' \in Summarizers
    /\ pc' = "start"
    /\ fnames_to_excavate' = <<>>
    /\ rel_and_log_z_fnames' = <<>>
    /\ log_async_results' = <<>>
    /\ facts_async_results' = <<>>
    /\ idx' = 1
    /\ promo' = [rel_name |-> <<>>, tmp_file |-> <<>>, pos |-> 0]
    /\ facts' = <<>>
    /\ summarized' = <<>>
    /\ jobs' = <<>>
    /\ git_calls' = NoGitCalls
    /\ completed' = <<>>
    /\ calls' = NoCalls
    /\ fs' = [p \in CacheFiles |-> fs[p]]
    /\ fs0' = fs'
    /\ UNCHANGED <<pureVars, dirs>>

Init ==
    /\ SplitIdle
    /\ ParseIdle
    /\ fs = <<>>
    /\ dirs = {}
    /\ use_cached_logs \in BOOLEAN
    /\ num_procs \in 1..MaxProcs
    /\ fact_finders \in FinderConfigs
    /\ summarizer \in Summarizers
    /\ FreshRun
    /\ fs0 = fs

Next ==
    \/ ListInteresting
    \/ SubmitExtract
    \/ GetExtractResult
    \/ PromoteMkdir
    \/ PromoteOpen
    \/ PromoteWrite
    \/ PromoteUnlink
    \/ SubmitFacts
    \/ GetFactsResult
    \/ Summarize
    \/ ClosePool
    \/ \E w \in 1..num_procs : WorkerTake(w)
    \/ \E j \in JobIds : ExtractCreateTmp(j)
    \/ \E j \in JobIds : ExtractGitOk(j)
    \/ \E j \in JobIds : ExtractGitFail(j)
    \/ \E j \in JobIds : FactsOpen(j)
    \/ \E j \in JobIds : FactsCall(j)
    \/ \E j \in JobIds : FactsCallFail(j)
    \/ Interrupt
    \/ StartRun

Spec == Init /\ [][Next]_vars

\* the steps of the main process inside excavate
MainProcess ==
    \/ ListInteresting
    \/ SubmitExtract
    \/ GetExtractResult
    \/ PromoteMkdir
    \/ PromoteOpen
    \/ PromoteWrite
    \/ PromoteUnlink
    \/ SubmitFacts
    \/ GetFactsResult
    \/ Summarize
    \/ ClosePool

\* the steps of the pool's worker processes: a fact-finding job makes its
\* finders and parses its log, or a worker takes any other step
WorkersOpen == \E j \in JobIds : FactsOpen(j)

WorkersElse ==
    \/ \E w \in 1..num_procs : WorkerTake(w)
    \/ \E j \in JobIds : ExtractCreateTmp(j)
    \/ \E j \in JobIds : ExtractGitOk(j)
    \/ \E j \in JobIds : ExtractGitFail(j)
    \/ \E j \in JobIds : FactsCall(j)
    \/ \E j \in JobIds : FactsCallFail(j)

WorkerProcesses == WorkersOpen \/ WorkersElse

\* WorkersOpen can be taken: a worker is at the start of a fact-finding job
WorkersOpenEnabled ==
    /\ PoolAlive
    /\ \E j \in JobIds :
          Running(j) /\ jobs[j].func = "_find_facts" /\ jobs[j].step = "new"

\* one call of excavate, which may be interrupted
OneRun == MainProcess \/ WorkerProcesses \/ Interrupt

\* one call of excavate in which the operating system keeps scheduling the
\* main process and the workers: a process that can take a step takes one
\* in the end, so every job a worker has taken terminates, well or not.
\* Nothing obliges an interrupt to come.  The last conjunct is the weak
\* fairness of WorkersOpen, written with its enabling condition.
FairSpec ==
    /\ Init
    /\ [][OneRun]_vars
    /\ WF_vars(MainProcess)
    /\ WF_vars(WorkersElse)
    /\ ([]<>(~WorkersOpenEnabled) \/ []<><<WorkersOpen>>_vars)

(***************************************************************************)
(* split_file on its own, over every small stream                          *)
(***************************************************************************)
RunIdle ==
    /\ fs = <<>>
    /\ dirs = {}
    /\ use_cached_logs = TRUE
    /\ num_procs = 1
    /\ fact_finders = FACT_FINDERS
    /\ summarizer = _write_to_stdout
    /\ FreshRun
    /\ fs0 = fs

SplitInit ==
    /\ fil_data \in SeqsUpTo(SplitBytes, MaxLen)
    /\ sep_char \in SeqsUpTo(SplitBytes, 2)
    /\ read_size \in 1..MaxReadSize
    /\ fil_pos = 0
    /\ chunk = <<>>
    /\ check_positions = <<>>
    /\ cur_pos = 0
    /\ buf = <<>>
    /\ yielded = <<>>
    /\ reads = <<>>
    /\ split_pc = "start"
    /\ ParseIdle
    /\ RunIdle

SplitNext ==
    \/ SplitStart /\ UNCHANGED <<parseVars, runVars>>
    \/ SplitRead /\ UNCHANGED <<parseVars, runVars>>
    \/ SplitScan /\ UNCHANGED <<parseVars, runVars>>
    \/ SplitFinish /\ UNCHANGED <<parseVars, runVars>>

SplitSpec == SplitInit /\ [][SplitNext]_vars

(***************************************************************************)
(* Properties                                                              *)
(***************************************************************************)
\* the interesting files, relative to the project directory
InterestingRel ==
    LET fnames == _interesting_fnames_in_proj(project_dir,
                                              INTERESTING_FNAMES_RES,
                                              BORING_FNAMES_RES)
    IN  {rel_fname(project_dir, fnames[k]) : k \in 1..Len(fnames)}

CachePathOf(rel_name) == PathJoin(log_cache_dir, rel_name)

AbsOf(rel_name) == PathJoin(project_dir, rel_name)

ExtractJobs == {j \in JobIds : jobs[j].func = "_extract_log"}

FactsJobIds == {j \in JobIds : jobs[j].func = "_find_facts"}

FactsJobsOf(rel_name) == {j \in FactsJobIds : jobs[j].fname = rel_name}

FactsPhase == {"facts_submit", "facts_wait", "summarize", "close", "done"}

RelA == <<"a.py">>
RelB == <<"d", "b.py">>

\* C1: for every stream s, one-byte separator d and read size >= 1, the
\* segments split_file yields are s.split(d): one more segment than s has
\* separators, empty leading and trailing segments kept, and one empty
\* segment for the empty stream
C1_SplitEqualsWholeBufferSplit ==
    split_pc = "done" =>
        /\ yielded = PySplit(fil_data, sep_char[1])
        /\ Len(yielded) = Count(fil_data, sep_char[1]) + 1
        /\ (fil_data = <<>> => yielded = << <<>> >>)
        /\ split_file_all(fil_data, sep_char, read_size) = yielded

\* a stream that starts and ends with the separator, read in several
\* chunks, with a segment longer than the read size
C1_Witness ==
    /\ split_pc = "done"
    /\ Len(fil_data) > read_size
    /\ fil_data[1] = sep_char[1]
    /\ fil_data[Len(fil_data)] = sep_char[1]
    /\ Len(yielded) = 3
    /\ Len(yielded[2]) > read_size

\* the entries of `content` that parse, in the order they stand in it
ParseableOf(content) ==
    LET segments == PySplit(content, NUL)
        parsed == [k \in 1..Len(segments) |-> _parse_log_entry(segments[k])]
    IN  SelectSeq(parsed, LAMBDA e : ~IsNone(e))

\* the finder calls due for `content`: entry by entry, and for each entry
\* finder by finder
ExpectedCalls(content) ==
    LET entries == ParseableOf(content)
        m == Len(fact_finders)
    IN  [n \in 1..(Len(entries) * m) |->
            [commit |-> entries[((n - 1) \div m) + 1].commit,
             fi |-> ((n - 1) % m) + 1]]

\* C2: within one _find_facts job the finders are called on the parseable
\* entries of the cached log in the log's order (oldest first), every
\* finder in declaration order on one entry before any finder on the
\* next, and the facts are returned in that call order
C2_FindersCalledInEntryThenFinderOrder ==
    \A j \in FactsJobIds :
        jobs[j].step \in {"call", "returned"} =>
            LET f == jobs[j].fname
                exp == ExpectedCalls(fs[jobs[j].log_z_fname])
                mine == SelectSeq(calls[f], LAMBDA c : c.job = j)
            IN  /\ Len(mine) <= Len(exp)
                /\ jobs[j].state = "ok" => Len(mine) = Len(exp)
                /\ Len(jobs[j].result) = Len(mine)
                /\ \A n \in 1..Len(mine) :
                      /\ mine[n].commit = exp[n].commit
                      /\ mine[n].fi = exp[n].fi
                      /\ jobs[j].result[n].finder =
                            fact_finders[exp[n].fi].name
                      /\ jobs[j].result[n].fname = f
                      /\ jobs[j].result[n].commit = exp[n].commit

\* the job of a log with two parseable entries around one that has no
\* diff has returned its four facts
C2_Witness ==
    \E j \in FactsJobIds :
        /\ jobs[j].fname = RelA
        /\ jobs[j].state = "ok"
        /\ Len(jobs[j].result) = 4
        /\ Len(PySplit(fs[jobs[j].log_z_fname], NUL)) = 3

\* C3: a run submits exactly one fact-finding job per interesting file,
\* extracted or reused, and every finder call for a file is made by that
\* one job, in one worker, each (entry, finder) once
C3_OneFactsJobPerFile ==
    /\ \A j \in FactsJobIds : jobs[j].fname \in InterestingRel
    /\ \A f \in InterestingRel : Cardinality(FactsJobsOf(f)) <= 1
    /\ pc \in FactsPhase \ {"facts_submit"} =>
          \A f \in InterestingRel : Cardinality(FactsJobsOf(f)) = 1
    /\ \A f \in DOMAIN calls :
          \A m, n \in 1..Len(calls[f]) :
              /\ calls[f][m].job \in FactsJobsOf(f)
              /\ calls[f][m].job = calls[f][n].job
              /\ calls[f][m].worker = calls[f][n].worker
              /\ m # n => <<calls[f][m].ei, calls[f][m].fi>>
                          # <<calls[f][n].ei, calls[f][n].fi>>

\* a finished run that reused one file's log and extracted the other's,
\* the two jobs in different workers
C3_Witness ==
    /\ pc = "done"
    /\ use_cached_logs
    /\ CachePathOf(RelA) \in DOMAIN fs0
    /\ CachePathOf(RelB) \notin DOMAIN fs0
    /\ Len(calls[RelA]) = 4
    /\ Len(calls[RelB]) = 2
    /\ calls[RelA][1].worker # calls[RelB][1].worker

\* the fact-finding job of a file, and where it stands in the order of
\* completion and of submission
JobOf(rel_name) == CHOOSE j \in FactsJobIds : jobs[j].fname = rel_name

CompletedPos(j) == CHOOSE n \in 1..Len(completed) : completed[n] = j

SubmitPos(j) ==
    CHOOSE n \in 1..Len(facts_async_results) : facts_async_results[n] = j

\* C4 as claimed: the facts reach the summarizer in the order in which
\* the fact-finding jobs completed
C4_DeliveredInCompletionOrder ==
    pc \in FactsPhase =>
        \A m, n \in 1..Len(summarized) :
            m < n => CompletedPos(JobOf(summarized[m].fname))
                     <= CompletedPos(JobOf(summarized[n].fname))

\* C4 as amended: the facts reach the summarizer in the order in which
\* the fact-finding jobs were submitted, which is the order of the files,
\* whatever order the jobs complete in
C4_DeliveredInSubmissionOrder ==
    pc \in FactsPhase =>
        \A m, n \in 1..Len(summarized) :
            m < n => SubmitPos(JobOf(summarized[m].fname))
                     <= SubmitPos(JobOf(summarized[n].fname))

\* the second file's job completed first, and all six facts are delivered
C4_Witness ==
    /\ pc = "done"
    /\ Len(completed) = 2
    /\ completed[1] = facts_async_results[2]
    /\ Len(summarized) = 6

\* C5: while a fact-finding job exists, every extraction job of the run
\* has returned and its output has been promoted (copied whole to the
\* cache path, the temporary file deleted): the two phases never overlap
C5_PhasesDoNotOverlap ==
    FactsJobIds # {} =>
        /\ pc \in FactsPhase \cup {"failed"}
        /\ \A k \in ExtractJobs :
              /\ jobs[k].state = "ok"
              /\ jobs[k].tmp_file \notin DOMAIN fs
              /\ jobs[k].log_z_fname \in DOMAIN fs
              /\ fs[jobs[k].log_z_fname] = GitLog(jobs[k].fname)

\* a fact-finding job is calling finders in a run that extracted both logs
C5_Witness ==
    /\ Cardinality(ExtractJobs) = 2
    /\ \E j \in FactsJobIds : jobs[j].step = "call"

\* C6: a fact-finding job's cache path holds a file from the moment the
\* job is submitted, so when it starts, and the job never fails to open it
C6_CacheFileExistsWhenFactsJobStarts ==
    \A j \in FactsJobIds :
        /\ jobs[j].log_z_fname \in DOMAIN fs
        /\ jobs[j].state = "failed" => jobs[j].result # <<"IOError">>

\* a job has started for a file whose log was not cached when the run,
\* which uses cached logs, began
C6_Witness ==
    /\ use_cached_logs
    /\ \E j \in FactsJobIds :
          /\ jobs[j].step = "call"
          /\ jobs[j].log_z_fname \notin DOMAIN fs0

\* no run is executing
AtRest == pc \in {"start", "done", "failed", "interrupted"}

\* C7 as claimed, for the states between runs: a file at a cache path
\* holds the whole output of the extraction of its source file
C7_NoPartialCacheEntry ==
    AtRest =>
        \A f \in InterestingRel :
            CachePathOf(f) \in DOMAIN fs =>
                fs[CachePathOf(f)] = GitLog(AbsOf(f))

\* C8: _should_get_log is true when use_cached_logs is false or no file
\* is at the cache path, and false otherwise, whatever the file holds: a
\* file gets an extraction job exactly in those cases
C8_ShouldGetLogDecision ==
    \A n \in 1..Len(rel_and_log_z_fnames) :
        LET log_z_fname == rel_and_log_z_fnames[n][2]
        IN  (\E j \in ExtractJobs : jobs[j].log_z_fname = log_z_fname)
            <=> (~use_cached_logs \/ log_z_fname \notin DOMAIN fs0)

\* a cache file that does not hold the file's log was trusted
C8_Witness ==
    /\ pc \in FactsPhase
    /\ use_cached_logs
    /\ CachePathOf(RelA) \in DOMAIN fs0
    /\ fs0[CachePathOf(RelA)] # GitLog(AbsOf(RelA))
    /\ fs[CachePathOf(RelA)] = fs0[CachePathOf(RelA)]
    /\ \A j \in ExtractJobs : jobs[j].log_z_fname # CachePathOf(RelA)

AllCachedAtStart ==
    \A f \in InterestingRel : CachePathOf(f) \in DOMAIN fs0

C10_ExtractionFailureFailsRun ==
    (\E j \in ExtractJobs : jobs[j].state = "failed") =>
        /\ pc \notin FactsPhase
        /\ FactsJobIds = {}
        /\ summarized = <<>>
        /\ \A j, k \in ExtractJobs : jobs[j].fname = jobs[k].fname => j = k
        /\ git_calls.log <= Cardinality(ExtractJobs)

\* the run failed on its second extraction after promoting the first
C10_Witness ==
    /\ pc = "failed"
    /\ \E j \in ExtractJobs : jobs[j].state = "failed"
    /\ \E k \in ExtractJobs :
          /\ jobs[k].state = "ok"
          /\ jobs[k].log_z_fname \in DOMAIN fs
          /\ jobs[k].tmp_file \notin DOMAIN fs

\* the run was given a descriptor that cannot be resolved
Unresolvable ==
    \E k \in 1..Len(fact_finders) :
        /\ fact_finders[k].kind = "str"
        /\ fact_finders[k].name \notin Importable

ResolutionFailed(j) ==
    jobs[j].state = "failed" /\ jobs[j].result = <<"ImportError">>

FinderRaisedFor(f) == \E n \in 1..Len(calls[f]) : calls[f][n].raised

\* C12: once a finder call for a file has raised (a function raising, an
\* external process exiting non-zero), the file's fact-finding job has
\* failed as a whole and made no further call, the run cannot finish
\* successfully, and no fact of that file, not even one computed before
\* the failing call, reaches the summarizer
C12_FinderFailureFailsJobAndRun ==
    \A f \in DOMAIN calls :
        FinderRaisedFor(f) =>
            /\ \A j \in FactsJobsOf(f) : jobs[j].state = "failed"
            /\ \A n \in 1..Len(calls[f]) : calls[f][n].raised <=> n = Len(calls[f])
            /\ pc \notin {"close", "done"}
            /\ \A m \in 1..Len(facts) : facts[m].fname # f
            /\ \A m \in 1..Len(summarized) : summarized[m].fname # f

\* the run failed on the second file, whose job had computed a fact before
\* the failing call, after delivering the facts of the first file
C12_Witness ==
    /\ pc = "failed"
    /\ FinderRaisedFor(RelB)
    /\ Len(calls[RelB]) = 2
    /\ Len(summarized) = 4
    /\ \A m \in 1..Len(summarized) : summarized[m].fname = RelA

(***************************************************************************)
(* git_log's functions on their own, over small inputs                     *)
(***************************************************************************)
\* longest author value tried, in bytes
MaxAuthorLen == 5
\* most segments of a stream tried
MaxSegments == 3

\* the bytes the author values tried are made of
AuthorBytes == {"B", SP, "<", ">", LF}

\* the author values of test_parse_name_and_email
AuthorPlain ==
    <<"B", "o", "b", SP, "J", "o", "n", "e", "s", SP, "<", "b", "o", "b",
    "@", "e", "x", "a", "m", "p", "l", "e", ".", "c", "o", "m", ">">>

AuthorGreaterThan ==
    <<"B", "o", "b", SP, ">", SP, "G", "r", "e", "a", "t", "e", "r", SP,
    "T", "h", "a", "n", SP, "<", "b", "o", "b", "<", ">", "@", "e", "x",
    "a", "m", "p", "l", "e", ".", "c", "o", "m", ">">>

AuthorLessThan ==
    <<"B", "o", "b", SP, "<", SP, "L", "e", "s", "s", SP, "T", "h", "a",
    "n", SP, "<", "b", "o", "b", "<", ">", "@", "e", "x", "a", "m", "p",
    "l", "e", ".", "c", "o", "m", ">">>

AuthorNoBrackets ==
    <<"B", "o", "b", SP, "J", "o", "n", "e", "s">>

AuthorInputs ==
    SeqsUpTo(AuthorBytes, MaxAuthorLen)
    \cup {AuthorPlain, AuthorGreaterThan, AuthorLessThan, AuthorNoBrackets}

\* raw entries, line by line: first lines, second lines, and what follows

EntryFirstLines ==
    {<<"c", "o", "m", "m", "i", "t", SP, "1">>,
     <<"c", "o", "m", "m", "i", "t">>,
     <<"c", "o", "m", "m", "i", "t", SP>>,
     <<"x", "o", "m", "m", "i", "t", SP, "1">>,
     <<"c", "o", "m", "m", "i", "t", SP, "1", CR>>,
     <<"c", "o", "m", "m", "i", "t", SP, BAD>>}

EntrySecondLines ==
    {<<"A", "u", "t", "h", "o", "r", ":", SP, "a", SP, "<", "e", ">">>,
     <<"A", "u", "t", "h", "o", "r", ":", SP, "a">>,
     <<"A", "u", "t", "h", "o", "r", ":", SP, "<", "e", ">">>,
     <<"A", "u", "t", "h", "o", "r", ":">>,
     <<"a", "u", "t", "h", "o", "r", ":", SP, "a", SP, "<", "e", ">">>,
     <<"A", "u", "t", "h", "o", "r", ":", SP, "a", SP, "<", "e", ">", CR>>,
     <<"A", "u", "t", "h", "o", "r", ":", SP, "a", SP, "<", "<", "e", ">">>,
     <<"A", "u", "t", "h", "o", "r", "x">>,
     <<"A", "u", "t", "h", "o", "r", ":", SP, BAD, SP, "<", BAD, ">">>}

EntryRests ==
    {<<>>,
     <<LF, "d", "i", "f", "f">>,
     <<LF, LF, SP, "m", LF, "d", "i", "f", "f", LF, "+", "x">>,
     <<LF, SP, TAB>>,
     <<LF, LF, "d", "i", "f", "f", "x", CR, LF>>,
     <<LF, "A", "u", "t", "h", "o", "r", ":", SP, "b", SP, "<", "f", ">", LF, "d", "i", "f", "f">>,
     <<LF, "D", "a", "t", "e", LF, LF, SP, "m", LF, TAB, "n", LF, "X", LF, LF, "d", "i", "f", "f", SP, "-">>,
     <<LF, "d", "i", "f", "f", BAD, CR>>}

EntryInputs ==
    {<<>>, CommitHeader \o <<"1">>}
    \cup {first \o <<LF>> \o second \o rest :
             first \in EntryFirstLines, second \in EntrySecondLines,
             rest \in EntryRests}

\* the segments the streams tried are made of: entries that parse, an
\* entry without a diff, one with an empty commit, and the empty segment
StreamSegments ==
    {Entry("1"),
     NoDiffEntry("2"),
     <<>>,
     CommitHeader \o <<LF>> \o AuthorHeader \o <<"a", SP, "<", "e", ">", LF>>
         \o DiffMarker,
     CommitHeader \o <<BAD, CR, LF>> \o AuthorHeader
         \o <<"a", SP, "<", ">", CR, LF>> \o DiffMarker \o <<CR>>}

StreamInputs ==
    {JoinWith(segments, <<NUL>>) :
        segments \in SeqsUpTo(StreamSegments, MaxSegments) \ {<<>>}}

\* _parse_log_entry(parse_in)
ParseEntry ==
    /\ parse_pc = "start"
    /\ parse_fn = "_parse_log_entry"
    /\ parse_out' = _parse_log_entry(parse_in)
    /\ parse_pc' = "done"
    /\ UNCHANGED <<parse_fn, parse_in, splitVars, runVars>>

\* parse_name_and_email(parse_in)
ParseAuthor ==
    /\ parse_pc = "start"
    /\ parse_fn = "parse_name_and_email"
    /\ parse_out' = parse_name_and_email(parse_in)
    /\ parse_pc' = "done"
    /\ UNCHANGED <<parse_fn, parse_in, splitVars, runVars>>

\* list(parse_raw_log_stream(fil)) for a stream holding parse_in
ParseStream ==
    /\ parse_pc = "start"
    /\ parse_fn = "parse_raw_log_stream"
    /\ parse_out' = parse_raw_log_stream(parse_in)
    /\ parse_pc' = "done"
    /\ UNCHANGED <<parse_fn, parse_in, splitVars, runVars>>

\* most regular expressions in one list given to is_interesting_fname
MaxRes == 2

\* the names of test_interesting_fnames and one more, as path components:
\* '', 'hello', 'hello.txt', '/test/this.txt', 'this.txt', 'that.doc'
FnameInputs ==
    {<<>>, <<"hello">>, <<"hello.txt">>, <<"test", "this.txt">>,
     <<"this.txt">>, <<"that.doc">>}

\* the regular expressions of test_interesting_fnames, each the set of the
\* names above its match() accepts: .*\.txt  .*\.doc  .*\.xls  .*
ReInputs ==
    { {<<"hello.txt">>, <<"test", "this.txt">>, <<"this.txt">>},
      {<<"that.doc">>},
      {},
      FnameInputs }

\* the (fname, interesting_res, boring_res) is_interesting_fname is tried on
InterestingInputs ==
    [fname : FnameInputs,
     interesting_res : SeqsUpTo(ReInputs, MaxRes),
     boring_res : SeqsUpTo(ReInputs, MaxRes)]

\* is_interesting_fname(fname, interesting_res, boring_res)
CallIsInteresting ==
    /\ parse_pc = "start"
    /\ parse_fn = "is_interesting_fname"
    /\ parse_out' = is_interesting_fname(parse_in.fname,
                                         parse_in.interesting_res,
                                         parse_in.boring_res)
    /\ parse_pc' = "done"
    /\ UNCHANGED <<parse_fn, parse_in, splitVars, runVars>>

\* entries with notes between the author line and the diff, and with
\* more than one line that starts with 'diff'
NotesEntries ==
    {CommitHeader \o <<"1", LF>> \o AuthorHeader \o <<"a", SP, "<", "e", ">">>
         \o rest :
     rest \in {<<LF, LF, SP, "m", LF, LF, "N", "o", "t", "e", "s", ":", LF,
                 SP, "n", LF, "d", "i", "f", "f", SP, "1", LF, "+", "x", LF,
                 "d", "i", "f", "f", SP, "2", LF, "-", "y">>,
                <<LF, "d", "i", "f", "f", LF, "d", "i", "f", "f">>,
                <<LF, SP, "d", "i", "f", "f", LF, "D", "i", "f", "f">>}}
    \cup {DiffMarker \o <<LF>> \o DiffMarker,
          CommitMarker \o DiffMarker \o <<LF>> \o AuthorMarker \o DiffMarker}

\* the entries _split_entry_header is tried on, as util.utf8 returns them
SplitHeaderInputs == {utf8(entry) : entry \in EntryInputs \cup NotesEntries}

\* _split_entry_header(parse_in)
CallSplitEntryHeader ==
    /\ parse_pc = "start"
    /\ parse_fn = "_split_entry_header"
    /\ parse_out' = _split_entry_header(parse_in)
    /\ parse_pc' = "done"
    /\ UNCHANGED <<parse_fn, parse_in, splitVars, runVars>>

\* most header lines given to _parse_log_msg
MaxHeaderLines == 4

\* the header lines tried: empty, indented with a space or a tab, and not
\* indented
HeaderLineInputs == {<<>>, <<SP, "m">>, <<TAB, "n">>, <<"X">>}

HeaderLinesInputs == SeqsUpTo(HeaderLineInputs, MaxHeaderLines)

\* _parse_log_msg(parse_in)
CallParseLogMsg ==
    /\ parse_pc = "start"
    /\ parse_fn = "_parse_log_msg"
    /\ parse_out' = _parse_log_msg(parse_in)
    /\ parse_pc' = "done"
    /\ UNCHANGED <<parse_fn, parse_in, splitVars, runVars>>

ParseInit ==
    /\ \/ parse_fn = "_parse_log_entry" /\ parse_in \in EntryInputs
       \/ parse_fn = "parse_name_and_email" /\ parse_in \in AuthorInputs
       \/ parse_fn = "parse_raw_log_stream" /\ parse_in \in StreamInputs
       \/ parse_fn = "is_interesting_fname" /\ parse_in \in InterestingInputs
       \/ parse_fn = "_split_entry_header" /\ parse_in \in SplitHeaderInputs
       \/ parse_fn = "_parse_log_msg" /\ parse_in \in HeaderLinesInputs
    /\ parse_out = None
    /\ parse_pc = "start"
    /\ SplitIdle
    /\ RunIdle

ParseNext ==
    \/ ParseEntry
    \/ ParseAuthor
    \/ ParseStream
    \/ CallIsInteresting
    \/ CallSplitEntryHeader
    \/ CallParseLogMsg

ParseSpec == ParseInit /\ [][ParseNext]_vars

\* the lines of a raw entry, and the index of its first line from the
\* third on that starts with 'diff' (one past the last line if none does)
RawLines(entry) ==
    LET lines == PySplit(entry, LF)
    IN  [k \in 1..Len(lines) |-> RStripCR(lines[k])]

FirstDiffLine(lines) ==
    LET found == {k \in 3..Len(lines) : StartsWith(lines[k], DiffMarker)}
    IN  IF found = {} THEN Len(lines) + 1
        ELSE CHOOSE k \in found : \A m \in found : k <= m

\* the header lines that start with 'Author: '
AuthorLines(lines) ==
    {k \in 1..(FirstDiffLine(lines) - 1) : StartsWith(lines[k], AuthorHeader)}

\* a has the form Name <email>
NameEmailForm(a) ==
    \E i \in 1..(Len(a) - 3) :
        /\ \A k \in 1..i : a[k] # "<"
        /\ a[i + 1] = SP
        /\ a[i + 2] = "<"
        /\ a[Len(a)] = ">"

TooFewLines(entry) == Len(RawLines(entry)) < 2

NoCommitLine(entry) == ~StartsWith(RawLines(entry)[1], CommitMarker)

NoAuthorLine(entry) == ~StartsWith(RawLines(entry)[2], AuthorMarker)

UnparsableAuthor(entry) ==
    LET lines == RawLines(entry)
        at == AuthorLines(lines)
    IN  \/ at = {}
        \/ LET k == CHOOSE k \in at : \A m \in at : k <= m
           IN  ~NameEmailForm(SubSeq(lines[k], Len(AuthorHeader) + 1,
                                     Len(lines[k])))

EmptyDiff(entry) ==
    LET lines == RawLines(entry)
    IN  \A k \in FirstDiffLine(lines)..Len(lines) :
            \A i \in 1..Len(lines[k]) : lines[k][i] \in Whitespace

\* C13: _parse_log_entry returns None, and raises nothing, for a raw entry
\* of fewer than two lines, or whose first line does not begin with
\* 'commit', or whose second line does not begin with 'Author', or whose
\* author value is not of the form Name <email>, or whose diff is empty
\* after trimming
C13_UnparseableEntriesGiveNone ==
    /\ parse_fn = "_parse_log_entry"
    /\ parse_pc = "done"
    /\ \/ TooFewLines(parse_in)
       \/ NoCommitLine(parse_in)
       \/ NoAuthorLine(parse_in)
       \/ UnparsableAuthor(parse_in)
       \/ EmptyDiff(parse_in)
    => parse_out = None

\* an entry with a commit line, a later well-formed 'Author: ' line and a
\* diff, whose second line is not an author line, gave None
C13_Witness ==
    /\ parse_fn = "_parse_log_entry"
    /\ parse_pc = "done"
    /\ parse_out = None
    /\ ~TooFewLines(parse_in)
    /\ ~NoCommitLine(parse_in)
    /\ NoAuthorLine(parse_in)
    /\ ~UnparsableAuthor(parse_in)
    /\ ~EmptyDiff(parse_in)

\* the header lines that start with 'commit '
CommitLines(lines) ==
    {k \in 1..(FirstDiffLine(lines) - 1) : StartsWith(lines[k], CommitHeader)}

\* the first 'commit ' header line of the entry holds a value
HasCommitValue(entry) ==
    LET lines == RawLines(entry)
        at == CommitLines(lines)
    IN  /\ at # {}
        /\ LET k == CHOOSE k \in at : \A m \in at : k <= m
           IN  Len(lines[k]) > Len(CommitHeader)

\* a raw entry with a commit, an author of the form Name <email> and a diff
GoodSegment(entry) ==
    /\ ~TooFewLines(entry)
    /\ ~NoCommitLine(entry)
    /\ ~NoAuthorLine(entry)
    /\ ~UnparsableAuthor(entry)
    /\ ~EmptyDiff(entry)
    /\ HasCommitValue(entry)

\* log_entry has a commit, a diff that is not blank, a name, and its name
\* and email are those of an 'Author: Name <email>' line of raw_entry
WellFormedEntry(log_entry, raw_entry) ==
    /\ log_entry.commit # <<>>
    /\ \E i \in 1..Len(log_entry.diff) : log_entry.diff[i] \notin Whitespace
    /\ log_entry.author_name # <<>>
    /\ LET lines == RawLines(uc(raw_entry))
       IN  \E k \in AuthorLines(lines) :
               lines[k] = AuthorHeader \o log_entry.author_name \o <<SP, "<">>
                          \o log_entry.author_email \o <<">">>

\* C14: every LogEntry the parser returns or parse_raw_log_stream yields
\* has a non-empty commit, a diff that is not blank, and a non-empty
\* author_name that with author_email comes from a Name <email> author
\* line; the stream yields one LogEntry per segment that has all of
\* these, so every other segment, the empty one after a trailing
\* delimiter included, is dropped
C14_YieldedEntriesAreWellFormed ==
    /\ parse_fn = "_parse_log_entry" /\ parse_pc = "done" =>
          /\ ~IsNone(parse_out) => WellFormedEntry(parse_out, parse_in)
          /\ ~IsNone(parse_out) <=> GoodSegment(parse_in)
    /\ parse_fn = "parse_raw_log_stream" /\ parse_pc = "done" =>
          LET segments == PySplit(parse_in, NUL)
              good == {k \in 1..Len(segments) : GoodSegment(segments[k])}
          IN  /\ Len(parse_out) = Cardinality(good)
              /\ \A n \in 1..Len(parse_out) :
                    \E k \in good :
                        WellFormedEntry(parse_out[n], segments[k])

\* a stream of an entry, an entry with a diff but an empty commit, and a
\* trailing delimiter yielded one LogEntry
C14_Witness ==
    /\ parse_fn = "parse_raw_log_stream"
    /\ parse_pc = "done"
    /\ Len(parse_in) > 0
    /\ parse_in[Len(parse_in)] = NUL
    /\ LET segments == PySplit(parse_in, NUL)
       IN  /\ Len(segments) = 3
           /\ GoodSegment(segments[1])
           /\ ~EmptyDiff(segments[2])
           /\ ~HasCommitValue(segments[2])
    /\ Len(parse_out) = 1

\* C15: a LogEntry's raw_log is the raw entry as it was given to the
\* parser, byte for byte: bytes that are not UTF-8 are not replaced in it
\* and carriage returns are not stripped from it; each LogEntry a stream
\* yields carries the segment it was parsed from, in the stream's order
C15_RawLogIsTheRawEntry ==
    /\ parse_fn = "_parse_log_entry" /\ parse_pc = "done"
          /\ ~IsNone(parse_out) => parse_out.raw_log = parse_in
    /\ parse_fn = "parse_raw_log_stream" /\ parse_pc = "done" =>
          LET segments == PySplit(parse_in, NUL)
          IN  \E at \in [1..Len(parse_out) -> 1..Len(segments)] :
                  /\ \A n \in 1..Len(parse_out) :
                        parse_out[n].raw_log = segments[at[n]]
                  /\ \A m, n \in 1..Len(parse_out) : m < n => at[m] < at[n]

\* an entry with a byte that is not UTF-8 and a carriage return parsed,
\* and the fields made from it differ from its raw bytes
C15_Witness ==
    /\ parse_fn = "_parse_log_entry"
    /\ parse_pc = "done"
    /\ ~IsNone(parse_out)
    /\ \E i \in 1..Len(parse_in) : parse_in[i] = BAD
    /\ \E i \in 1..Len(parse_in) : parse_in[i] = CR
    /\ parse_out.raw_log = parse_in
    /\ \E i \in 1..Len(parse_out.diff) : parse_out.diff[i] = REPL

\* the positions of '<' in a
LessThanAt(a) == {i \in 1..Len(a) : a[i] = "<"}

FirstOf(S) == CHOOSE x \in S : \A y \in S : x <= y

LastOf(S) == CHOOSE x \in S : \A y \in S : y <= x

\* where a '>' closes the value: at its end, or before a final line feed
ClosingAt(a) ==
    IF Len(a) >= 1 /\ a[Len(a)] = ">" THEN Len(a)
    ELSE IF Len(a) >= 2 /\ a[Len(a)] = LF /\ a[Len(a) - 1] = ">"
    THEN Len(a) - 1
    ELSE 0

\* what splitting a at the '<' at position at gives: the name without the
\* separating space, and the email up to the closing '>'
SplitAt(a, at) ==
    [name |-> SubSeq(a, 1, at - 2), email |-> SubSeq(a, at + 1, ClosingAt(a) - 1)]

\* a has a name, ' <' at its first '<', and a closing '>' after it with no
\* line feed between the two
SplitsAtFirst(a) ==
    /\ LessThanAt(a) # {}
    /\ LET at == FirstOf(LessThanAt(a))
       IN  /\ at >= 3
           /\ a[at - 1] = SP
           /\ ClosingAt(a) > at
           /\ \A k \in (at + 1)..(ClosingAt(a) - 1) : a[k] # LF

\* C16 as claimed: parse_name_and_email splits the author value at its
\* last '<': the name is what stands before it, without the separating
\* space, and the email what stands between it and the trailing '>'
C16_SplitsAtLastLessThan ==
    parse_fn = "parse_name_and_email" /\ parse_pc = "done" =>
        \/ IsNone(parse_out)
        \/ /\ LessThanAt(parse_in) # {}
           /\ parse_out = SplitAt(parse_in, LastOf(LessThanAt(parse_in)))

\* C16 as amended: parse_name_and_email splits the author value at its
\* first '<': the name is what stands before it, without the separating
\* space, and the email what stands between it and the closing '>', so
\* the email may hold further '<'; a value not of that shape gives None
C16_SplitsAtFirstLessThan ==
    parse_fn = "parse_name_and_email" /\ parse_pc = "done" =>
        IF SplitsAtFirst(parse_in)
        THEN parse_out = SplitAt(parse_in, FirstOf(LessThanAt(parse_in)))
        ELSE IsNone(parse_out)

\* a value with two '<' was split at the first
C16_Witness ==
    /\ parse_fn = "parse_name_and_email"
    /\ parse_pc = "done"
    /\ parse_in = AuthorLessThan
    /\ Cardinality(LessThanAt(parse_in)) = 3
    /\ parse_out = [name |-> <<"B", "o", "b">>,
                    email |-> SubSeq(AuthorLessThan, 6, Len(AuthorLessThan) - 1)]

\* the ways to write a as n + ' <' + e + '>' with n non-empty and without
\* '<': the lengths of n (there is at most one)
NameLengths(a) ==
    {i \in 1..(Len(a) - 3) :
        /\ \A k \in 1..i : a[k] # "<"
        /\ a[i + 1] = SP
        /\ a[i + 2] = "<"
        /\ a[Len(a)] = ">"}

\* (n, e) for the a that can be so written, None for the others
NameAndEmailOf(a) ==
    IF NameLengths(a) = {} THEN None
    ELSE LET i == CHOOSE i \in NameLengths(a) : TRUE
         IN  [name |-> SubSeq(a, 1, i), email |-> SubSeq(a, i + 3, Len(a) - 1)]

HasLineFeed(a) == \E i \in 1..Len(a) : a[i] = LF

\* a without its final line feed, if it has one
WithoutFinalLineFeed(a) ==
    IF Len(a) >= 1 /\ a[Len(a)] = LF THEN SubSeq(a, 1, Len(a) - 1) ELSE a

\* C17 as claimed: parse_name_and_email(a) returns (n, e) exactly when
\* a = n + ' <' + e + '>' with n non-empty and without '<', and None for
\* every other a
C17_NameSpaceBracketEmailExactly ==
    parse_fn = "parse_name_and_email" /\ parse_pc = "done" =>
        parse_out = NameAndEmailOf(parse_in)

\* C17 as amended: for an a that holds no line feed, parse_name_and_email(a)
\* returns (n, e) exactly when a = n + ' <' + e + '>' with n non-empty and
\* without '<', and None otherwise, so None for the empty string and for a
\* string without angle brackets; for an a that holds line feeds it
\* returns only an (n, e) whose e holds none and with which a, or a
\* without its final line feed, is n + ' <' + e + '>'
C17_NameSpaceBracketEmailOnOneLine ==
    parse_fn = "parse_name_and_email" /\ parse_pc = "done" =>
        /\ ~HasLineFeed(parse_in) => parse_out = NameAndEmailOf(parse_in)
        /\ parse_in = AuthorGreaterThan =>
              parse_out = [name |-> SubSeq(AuthorGreaterThan, 1, 18),
                           email |-> SubSeq(AuthorGreaterThan, 21, 37)]
        /\ parse_in = AuthorLessThan =>
              parse_out = [name |-> SubSeq(AuthorLessThan, 1, 3),
                           email |-> SubSeq(AuthorLessThan, 6, 34)]
        /\ parse_in = <<>> => IsNone(parse_out)
        /\ (\A i \in 1..Len(parse_in) : parse_in[i] \notin {"<", ">"})
              => IsNone(parse_out)
        /\ HasLineFeed(parse_in) /\ ~IsNone(parse_out) =>
              /\ ~HasLineFeed(parse_out.email)
              /\ parse_out \in {NameAndEmailOf(parse_in),
                                NameAndEmailOf(WithoutFinalLineFeed(parse_in))}

\* the author with a '>' in the name and '<>' in the email gave both whole
C17_Witness ==
    /\ parse_fn = "parse_name_and_email"
    /\ parse_pc = "done"
    /\ parse_in = AuthorGreaterThan
    /\ ~IsNone(parse_out)
    /\ Len(parse_out.name) = 18
    /\ parse_out.name[5] = ">"
    /\ Len(parse_out.email) = 17
    /\ parse_out.name \o <<SP, "<">> \o parse_out.email \o <<">">> = parse_in


\* no NUL byte in s
NoNul(s) == \A i \in 1..Len(s) : s[i] # NUL

\* the segments an external finder called for file f on log_entry is to
\* read: the file name, then the fields as LogEntry declares them
SevenSegments(f, log_entry) ==
    <<utf8(FnameStr(f)), utf8(log_entry.commit), utf8(log_entry.author_name),
      utf8(log_entry.author_email), utf8(log_entry.log_msg),
      utf8(log_entry.diff), utf8(log_entry.raw_log)>>

\* C18: for every LogEntry produced from a cached log, an external-process
\* finder is given on its standard input exactly 7 segments separated by
\* NUL bytes: the relative file name, then commit, author_name,
\* author_email, log_msg, diff and raw_log in the declared order, none of
\* them holding a NUL byte; and all of its standard output is the fact
\* the call returns (the facts of a job that failed are lost with it)
C18_ExternalFinderGetsSevenSegments ==
    \A f \in DOMAIN calls :
        \A n \in 1..Len(calls[f]) :
            LET c == calls[f][n]
                finder == fact_finders[c.fi]
                log_entry == jobs[c.job].entries[c.ei]
                segments == PySplit(c.stdin, NUL)
            IN  finder.kind = "list" =>
                    /\ Len(segments) = 7
                    /\ Count(c.stdin, NUL) = 6
                    /\ segments = SevenSegments(f, log_entry)
                    /\ \A k \in 1..7 : NoNul(SevenSegments(f, log_entry)[k])
                    /\ jobs[c.job].state # "failed" =>
                          jobs[c.job].result[n].value
                              = wrap_popen(finder.name, c.stdin)

\* the process called for the one entry of d/b.py read the file name with
\* its directory and six fields, and what it printed is the second fact
\* of the file
C18_Witness ==
    /\ Len(calls[RelB]) = 2
    /\ LET c == calls[RelB][2]
       IN  /\ fact_finders[c.fi].kind = "list"
           /\ ~c.raised
           /\ PySplit(c.stdin, NUL)[1] = <<"d", "/", "b.py">>
           /\ PySplit(c.stdin, NUL)[2] = <<"4">>
           /\ Len(PySplit(c.stdin, NUL)[7]) > Len(PySplit(c.stdin, NUL)[6])
           /\ jobs[c.job].state = "ok"
           /\ jobs[c.job].result[2].value = <<ToString(Len(c.stdin)), LF>>


\* the facts due for the file rel_name whose cached log is `content`: one
\* per parseable entry and finder, entry by entry from the oldest
FactsOf(rel_name, content) ==
    LET entries == ParseableOf(content)
        m == Len(fact_finders)
    IN  [n \in 1..(Len(entries) * m) |->
            FinderFact(fact_finders[((n - 1) % m) + 1], rel_name,
                       entries[((n - 1) \div m) + 1])]

\* the facts due for the run: those of each file, file by file as
\* submitted
FactsOfRun ==
    Join([k \in 1..Len(rel_and_log_z_fnames) |->
             FactsOf(rel_and_log_z_fnames[k][1],
                     fs[rel_and_log_z_fnames[k][2]])])

\* s is the first Len(s) elements of t
IsPrefix(s, t) == Len(s) <= Len(t) /\ s = SubSeq(t, 1, Len(s))

C20_BadDelimiterRaisesBeforeReading ==
    /\ split_pc # "start" => (split_pc = "error" <=> Len(sep_char) # 1)
    /\ split_pc = "error" =>
          /\ yielded = <<>>
          /\ reads = <<>>
          /\ fil_pos = 0

\* a delimiter of two characters, the first of which the stream holds,
\* was refused with the stream untouched
C20_Witness ==
    /\ split_pc = "error"
    /\ Len(sep_char) = 2
    /\ \E i \in 1..Len(fil_data) : fil_data[i] = sep_char[1]
    /\ reads = <<>>
    /\ yielded = <<>>


\* some regular expression of the list matches the name
MatchesSome(fname, res) == \E k \in 1..Len(res) : fname \in res[k]

\* C21: is_interesting_fname(name, include, exclude) is true for every name
\* when both lists are empty; when the exclude list is non-empty it is
\* true exactly when the name matches no exclude pattern or matches some
\* include pattern (so a name matching both is interesting); when only the
\* include list is non-empty it is true exactly when the name matches some
\* include pattern
C21_IncludeOverridesExclude ==
    parse_fn = "is_interesting_fname" /\ parse_pc = "done" =>
        LET name == parse_in.fname
            include == parse_in.interesting_res
            exclude == parse_in.boring_res
        IN  /\ include = <<>> /\ exclude = <<>> => parse_out = TRUE
            /\ exclude # <<>> =>
                  (parse_out = TRUE <=>
                      \/ ~MatchesSome(name, exclude)
                      \/ MatchesSome(name, include))
            /\ exclude # <<>> /\ MatchesSome(name, exclude)
                              /\ MatchesSome(name, include) => parse_out = TRUE
            /\ exclude = <<>> /\ include # <<>> =>
                  (parse_out = TRUE <=> MatchesSome(name, include))

\* 'this.txt' with include [.*\.txt] and exclude [.*\.txt] was found
\* interesting
C21_Witness ==
    /\ parse_fn = "is_interesting_fname"
    /\ parse_pc = "done"
    /\ parse_in.fname = <<"this.txt">>
    /\ Len(parse_in.interesting_res) = 1
    /\ parse_in.boring_res = parse_in.interesting_res
    /\ <<"this.txt">> \in parse_in.boring_res[1]
    /\ <<"that.doc">> \notin parse_in.boring_res[1]
    /\ parse_out = TRUE


\* C22 as claimed: when excavate is called with summarizer None the run
\* does not fail because of the missing summarizer (it fails only if a
\* job failed), and at the end of a successful run every fact produced
\* has been handed to the default printer
C22_NoneSummarizerPrintsFacts ==
    IsNone(summarizer) =>
        /\ pc = "failed" => \E j \in JobIds : jobs[j].state = "failed"
        /\ pc = "done" => summarized = FactsOfRun


\* the jobs that are executing
RunningJobs == {j \in JobIds : Running(j)}

\* C23: at every moment at most num_procs jobs, extraction or fact
\* finding, are executing, each in a worker of its own; a submitted job
\* starts only when a worker is free and waits in the queue until then,
\* so with num_procs = 1 the jobs execute one at a time
C23_AtMostNumProcsJobsExecute ==
    /\ Cardinality(RunningJobs) <= num_procs
    /\ \A j \in RunningJobs : jobs[j].worker \in 1..num_procs
    /\ \A j, k \in RunningJobs : j # k => jobs[j].worker # jobs[k].worker
    /\ num_procs = 1 => Cardinality(RunningJobs) <= 1
    /\ \A j \in JobIds :
          jobs[j].state = "queued" /\ PoolAlive =>
              \/ \E k \in 1..(j - 1) : jobs[k].state = "queued"
              \/ ENABLED (\E w \in 1..num_procs : WorkerTake(w))
              \/ Cardinality(RunningJobs) = num_procs

\* with one worker process, the second extraction job waits in the queue
\* while the first is executing
C23_Witness ==
    /\ num_procs = 1
    /\ Len(jobs) = 2
    /\ jobs[1].func = "_extract_log"
    /\ jobs[1].state = "running"
    /\ jobs[2].state = "queued"
    /\ PoolAlive


\* the file at path p is not the same before and after the step
Written(p) ==
    \/ (p \in DOMAIN fs) # (p \in DOMAIN fs')
    \/ p \in DOMAIN fs /\ p \in DOMAIN fs' /\ fs[p] # fs'[p]

\* the paths under the cache directory that hold a file before or after
\* the step
CachePathsOfStep ==
    {p \in DOMAIN fs \cup DOMAIN fs' : StartsWith(p, log_cache_dir)}

\* no two extraction jobs of the run are for one cache path, and each
\* writes to a temporary file of its own outside the cache directory
OneExtractionPerCachePath ==
    \A j, k \in ExtractJobs :
        /\ j # k => jobs[j].log_z_fname # jobs[k].log_z_fname
        /\ j # k /\ jobs[j].tmp_file # <<>> =>
              jobs[j].tmp_file # jobs[k].tmp_file
        /\ ~StartsWith(jobs[j].tmp_file, log_cache_dir)

\* a file under the cache directory is written only by the main process,
\* in the promotion of the one result it has in hand
CacheWrittenByPromotionOnly ==
    \A p \in CachePathsOfStep :
        Written(p) =>
            /\ pc \in {"promote_open", "promote_write"}
            /\ p = PathJoin(log_cache_dir, promo.rel_name)
            /\ jobs' = jobs

\* C24: in one run at most one extraction job is submitted per distinct
\* cache path, and no two writes to one cache path overlap in time,
\* whatever num_procs is: the jobs write to temporary files of their own
\* and the cache files are written by the main process alone, one
\* promotion after the other
C24_NoWriteWriteRaceOnCache ==
    /\ []OneExtractionPerCachePath
    /\ [][CacheWrittenByPromotionOnly]_vars

\* two worker processes: the output of the first extraction job is being
\* copied to its cache path while the second job is still writing its
\* temporary file
C24_Witness ==
    /\ num_procs = 2
    /\ pc = "promote_write"
    /\ promo.rel_name = RelA
    /\ \E j \in ExtractJobs :
          /\ Running(j)
          /\ jobs[j].step = "git"
          /\ jobs[j].log_z_fname = CachePathOf(RelB)


\* the bytes read from the stream so far
ReadSoFar == SubSeq(fil_data, 1, fil_pos)

\* the reads so far that returned data: each returned read_size bytes, but
\* for the one that reached the end of the stream
ReadsWithData == (fil_pos + read_size - 1) \div read_size

\* C25: split_file yields a segment only once it has read the delimiter
\* that ends it or has reached the end of the stream, so what it has
\* yielded is the first segments of the stream, each whole even when
\* longer than read_size; every read asks for read_size bytes and no more,
\* and the generator ends at the first read that returns nothing
C25_YieldsOnlyAfterDelimiterOrEnd ==
    split_pc \in {"read", "scan", "done"} =>
        LET segments == PySplit(fil_data, sep_char[1])
        IN  /\ Len(yielded) <= Len(segments)
            /\ yielded = SubSeq(segments, 1, Len(yielded))
            /\ split_pc # "done" =>
                  Len(yielded) <= Count(ReadSoFar, sep_char[1])
            /\ \A n \in 1..Len(reads) : reads[n] = read_size
            /\ split_pc # "done" => Len(reads) = ReadsWithData
            /\ split_pc = "done" =>
                  /\ fil_pos = Len(fil_data)
                  /\ Len(reads) = ReadsWithData + 1
                  /\ Len(yielded) = Len(segments)

\* a first segment longer than read_size has been yielded whole after
\* several reads, while the rest of the stream is still unread
C25_Witness ==
    /\ split_pc \in {"read", "scan"}
    /\ Len(yielded) = 1
    /\ Len(yielded[1]) > read_size
    /\ Len(reads) >= 2
    /\ fil_pos < Len(fil_data)


\* every directory above path exists
ContainingDirsExist(path) ==
    \A n \in 1..(Len(path) - 1) : SubSeq(path, 1, n) \in dirs

\* the cache path of the promotion in hand
PromoCachePath == PathJoin(log_cache_dir, promo.rel_name)

\* the extraction jobs whose results the second loop of _extract_logs is
\* done with
PromotedJobs ==
    IF pc \in {"extract_wait", "promote_mkdir", "promote_open",
               "promote_write", "promote_unlink"}
    THEN {log_async_results[k] : k \in 1..(idx - 1)}
    ELSE IF pc \in FactsPhase
    THEN {log_async_results[k] : k \in 1..Len(log_async_results)}
    ELSE {}

\* C26: for each completed extraction job the promotion first makes sure
\* the directories containing the cache path exist, then copies the bytes
\* of the temporary file to the cache path, then deletes the temporary
\* file; afterwards the cache file holds the output of the extraction and
\* the temporary file is gone
C26_PromotionIsMkdirCopyUnlink ==
    /\ pc = "promote_mkdir" =>
          /\ promo.tmp_file \in DOMAIN fs
          /\ promo.pos = 0
    /\ pc = "promote_open" =>
          /\ ContainingDirsExist(PromoCachePath)
          /\ promo.tmp_file \in DOMAIN fs
          /\ promo.pos = 0
    /\ pc = "promote_write" =>
          /\ ContainingDirsExist(PromoCachePath)
          /\ promo.tmp_file \in DOMAIN fs
          /\ PromoCachePath \in DOMAIN fs
          /\ fs[PromoCachePath] = SubSeq(fs[promo.tmp_file], 1, promo.pos)
          /\ promo.pos < Len(fs[promo.tmp_file])
    /\ pc = "promote_unlink" =>
          /\ ContainingDirsExist(PromoCachePath)
          /\ promo.tmp_file \in DOMAIN fs
          /\ PromoCachePath \in DOMAIN fs
          /\ fs[PromoCachePath] = fs[promo.tmp_file]
    /\ \A j \in PromotedJobs :
          /\ jobs[j].state = "ok"
          /\ ContainingDirsExist(jobs[j].log_z_fname)
          /\ jobs[j].log_z_fname \in DOMAIN fs
          /\ fs[jobs[j].log_z_fname] = GitLog(jobs[j].fname)
          /\ jobs[j].tmp_file \notin DOMAIN fs

\* both files of the project were extracted and promoted: the cache holds
\* the two logs, one of them in a directory made for it, and no temporary
\* file is left
C26_Witness ==
    /\ pc = "facts_submit"
    /\ Cardinality(PromotedJobs) = 2
    /\ <<"cache", "d">> \in dirs
    /\ fs[CachePathOf(RelB)] = GitLog(AbsOf(RelB))
    /\ Len(fs[CachePathOf(RelA)]) > CopyBufSize
    /\ \A p \in DOMAIN fs : ~StartsWith(p, TmpDir)


\* the temporary file of an extraction job of the run is gone only if the
\* cache file of the job is there and holds the whole output
TmpDeletedOnlyAfterCompleteCopy ==
    \A j \in ExtractJobs :
        jobs[j].tmp_file # <<>> /\ jobs[j].tmp_file \notin DOMAIN fs =>
            /\ jobs[j].log_z_fname \in DOMAIN fs
            /\ fs[jobs[j].log_z_fname] = GitLog(jobs[j].fname)

\* the run is stopped when the copy of a promotion is done and the
\* temporary file not yet deleted: both files are left, the cache file
\* whole
StoppedBetweenCopyAndUnlink ==
    pc = "promote_unlink" /\ pc' = "interrupted" =>
        /\ promo.tmp_file \in DOMAIN fs'
        /\ PromoCachePath \in DOMAIN fs'
        /\ fs'[PromoCachePath] = fs'[promo.tmp_file]
        /\ fs'[PromoCachePath] = GitLog(AbsOf(promo.rel_name))

\* C27: if the run stops between the copy and the unlink of a promotion,
\* the temporary file and the cache file both exist and the cache file is
\* complete; and in no reachable state has a temporary file been deleted
\* while its cache file is missing or incomplete
C27_NoTmpDeletedBeforeCacheComplete ==
    /\ []TmpDeletedOnlyAfterCompleteCopy
    /\ [][StoppedBetweenCopyAndUnlink]_vars

\* a run was stopped between the copy and the unlink of the promotion of
\* a.py, and a.py's log, longer than one copy buffer, is whole in the
\* cache with the temporary file still there
C27_Witness ==
    /\ pc = "interrupted"
    /\ CachePathOf(RelA) \in DOMAIN fs
    /\ fs[CachePathOf(RelA)] = GitLog(AbsOf(RelA))
    /\ Len(fs[CachePathOf(RelA)]) > CopyBufSize
    /\ \E p \in DOMAIN fs :
          /\ StartsWith(p, TmpDir)
          /\ fs[p] = fs[CachePathOf(RelA)]
    /\ CachePathOf(RelA) \notin DOMAIN fs0


\* the temporary files there are
TmpFiles == {p \in DOMAIN fs : StartsWith(p, TmpDir)}

\* C28 as claimed: each extraction job creates one temporary file of its
\* own, and when the run has ended, well or because an extraction job
\* failed, every temporary file the run's extraction jobs created has
\* been deleted, after its promotion or without one: none is left behind
C28_NoTemporaryFileLeftBehind ==
    /\ \A j, k \in ExtractJobs :
          j # k /\ jobs[j].tmp_file # <<>> =>
              jobs[j].tmp_file # jobs[k].tmp_file
    /\ pc \in {"done", "failed"} => TmpFiles = {}


\* the entry has at least two lines, the first begins with the commit
\* marker and the second with the author marker
HasCommitAndAuthorLines(entry) ==
    LET lines == RawLines(entry)
    IN  /\ Len(lines) >= 2
        /\ StartsWith(lines[1], CommitMarker)
        /\ StartsWith(lines[2], AuthorMarker)

EmptyOrIndented(line) == line = <<>> \/ line[1] \in {SP, TAB}

\* the run of empty or indented lines of header_lines that starts at line
\* `from`: up to, not including, the first later line that is neither
RunFrom(header_lines, from) ==
    LET stops == {k \in from..Len(header_lines) :
                     ~EmptyOrIndented(header_lines[k])}
        end == IF stops = {} THEN Len(header_lines)
               ELSE (CHOOSE k \in stops : \A m \in stops : k <= m) - 1
    IN  SubSeq(header_lines, from, end)

\* the index of the first empty header line, one past the last line if
\* there is none
FirstEmpty(header_lines) ==
    LET at == {k \in 1..Len(header_lines) : header_lines[k] = <<>>}
    IN  IF at = {} THEN Len(header_lines) + 1
        ELSE CHOOSE k \in at : \A m \in at : k <= m

\* C30 as claimed: the log message is the run of header lines that starts
\* at the first header line that is empty or begins with a space or tab
\* and extends over the following empty or indented lines up to, not
\* including, the first later non-empty unindented line; it is empty when
\* there is no such line
C30_MessageStartsAtFirstEmptyOrIndentedLine ==
    parse_fn = "_parse_log_msg" /\ parse_pc = "done" =>
        parse_out = RunFrom(parse_in, FirstEmptyOrIndented(parse_in))

\* C30 as amended: the log message is the run of header lines that starts
\* at the first empty header line (indented lines before it are passed
\* over) and extends over the following empty or indented lines up to,
\* not including, the first later non-empty unindented line; it is empty
\* when no header line is empty
C30_MessageStartsAtFirstEmptyLine ==
    parse_fn = "_parse_log_msg" /\ parse_pc = "done" =>
        /\ parse_out = RunFrom(parse_in, FirstEmpty(parse_in))
        /\ parse_out # <<>> => parse_out[1] = <<>>
        /\ (\A k \in 1..Len(parse_in) : parse_in[k] # <<>>) => parse_out = <<>>
        /\ \A k \in 1..Len(parse_out) : EmptyOrIndented(parse_out[k])

\* an indented line stands before the first empty line and is not in the
\* message, which ends before the unindented line that follows it
C30_Witness ==
    /\ parse_fn = "_parse_log_msg"
    /\ parse_pc = "done"
    /\ parse_in = << <<SP, "m">>, <<>>, <<TAB, "n">>, <<"X">> >>
    /\ parse_out = << <<>>, <<TAB, "n">> >>


\* the fact-finding jobs that have made their finders
OpenedFactsJobs == {j \in FactsJobIds : jobs[j].step # "new"}

\* how many times worker w has resolved descriptor k in the run
TimesResolved(w, k) ==
    LET by == {j \in OpenedFactsJobs : jobs[j].worker = w}
    IN  Cardinality({j \in by :
                        \E n \in 1..Len(jobs[j].resolved) :
                            jobs[j].resolved[n] = k})

\* C31 as claimed: each fact-finder descriptor is resolved into a callable
\* exactly once per worker, however many files' fact-finding jobs that
\* worker executes
C31_ResolvedOncePerWorker ==
    \A w \in 1..num_procs :
        \A k \in 1..Len(fact_finders) : TimesResolved(w, k) <= 1

\* C31 as amended: each fact-finder descriptor is resolved once per
\* fact-finding job, so a worker resolves it as many times as the files'
\* jobs it executes (a job stops resolving at a descriptor that cannot be
\* resolved)
C31_ResolvedOncePerJob ==
    /\ \A j \in OpenedFactsJobs :
          /\ jobs[j].resolved # <<>>
          /\ \A n \in 1..Len(jobs[j].resolved) : jobs[j].resolved[n] = n
          /\ Len(jobs[j].resolved) <= Len(fact_finders)
          /\ Len(jobs[j].resolved) < Len(fact_finders) =>
                /\ jobs[j].state = "failed"
                /\ fact_finders[Len(jobs[j].resolved)].kind = "str"
                /\ fact_finders[Len(jobs[j].resolved)].name \notin Importable
    /\ \A w \in 1..num_procs :
          TimesResolved(w, 1)
              = Cardinality({j \in OpenedFactsJobs : jobs[j].worker = w})

\* the one worker of the run has executed the jobs of both files and has
\* resolved every descriptor twice
C31_Witness ==
    /\ num_procs = 1
    /\ Cardinality(OpenedFactsJobs) = 2
    /\ \A j \in OpenedFactsJobs : jobs[j].state = "ok"
    /\ \A k \in 1..Len(fact_finders) : TimesResolved(1, k) = 2


\* the extraction jobs submitted for cache path log_z_fname
ExtractJobsFor(log_z_fname) ==
    {j \in ExtractJobs : jobs[j].log_z_fname = log_z_fname}

\* C32: a run with use_cached_logs false submits an extraction job for
\* every interesting file, whether or not a file was at its cache path, and
\* once its extraction phase is over every interesting file's cache file
\* holds what this run's extraction produced, whatever it held before
C32_FreshRunExtractsAndOverwritesAll ==
    ~use_cached_logs =>
        /\ \A n \in 1..Len(rel_and_log_z_fnames) :
              Cardinality(ExtractJobsFor(rel_and_log_z_fnames[n][2])) = 1
        /\ pc \in FactsPhase =>
              \A f \in InterestingRel :
                  /\ \E j \in ExtractJobsFor(CachePathOf(f)) :
                        /\ jobs[j].state = "ok"
                        /\ jobs[j].fname = AbsOf(f)
                  /\ CachePathOf(f) \in DOMAIN fs
                  /\ fs[CachePathOf(f)] = GitLog(AbsOf(f))

\* a run that does not use cached logs found a different file at a cache
\* path and a whole log at the other, and has replaced both
C32_Witness ==
    /\ ~use_cached_logs
    /\ pc \in FactsPhase
    /\ CachePathOf(RelA) \in DOMAIN fs0
    /\ fs0[CachePathOf(RelA)] # GitLog(AbsOf(RelA))
    /\ fs[CachePathOf(RelA)] = GitLog(AbsOf(RelA))
    /\ CachePathOf(RelB) \in DOMAIN fs0
    /\ Cardinality(ExtractJobs) = 2


\* the cache files of the start of the run are there and hold what they
\* held
OldCacheFilesKept ==
    \A p \in DOMAIN fs0 : p \in DOMAIN fs /\ fs[p] = fs0[p]

\* a step of a run that uses cached logs writes under the cache directory
\* only at paths that held no file when the run started, and a step taken
\* while the fact-finding jobs are submitted, run and delivered writes no
\* file under the cache directory
OnlyNewCachePathsWritten ==
    use_cached_logs =>
        \A p \in CachePathsOfStep :
            Written(p) => p \notin DOMAIN fs0 /\ pc \notin FactsPhase

\* C33: a run with use_cached_logs true never writes, replaces or deletes
\* a cache file that was there when it started: it creates files only at
\* cache paths that held none, and its fact finding modifies no cache file
C33_CachedRunKeepsExistingCacheFiles ==
    /\ [](use_cached_logs => OldCacheFilesKept)
    /\ [][OnlyNewCachePathsWritten]_vars

\* a run that uses cached logs has ended: the cache file it found, which
\* does not hold the file's whole log, is as it was, and the cache file
\* that was missing has been created
C33_Witness ==
    /\ use_cached_logs
    /\ pc = "done"
    /\ summarized # <<>>
    /\ CachePathOf(RelA) \in DOMAIN fs0
    /\ fs0[CachePathOf(RelA)] # GitLog(AbsOf(RelA))
    /\ fs[CachePathOf(RelA)] = fs0[CachePathOf(RelA)]
    /\ CachePathOf(RelB) \notin DOMAIN fs0
    /\ fs[CachePathOf(RelB)] = GitLog(AbsOf(RelB))


\* the facts of file rel_name among those the summarizer has received, in
\* the order received
SummarizedOf(rel_name) ==
    SelectSeq(summarized, LAMBDA fact : fact.fname = rel_name)

\* between two facts of one file the summarizer received only facts of
\* that file
FactsOfAFileContiguous ==
    \A m, n \in 1..Len(summarized) :
        m < n /\ summarized[m].fname = summarized[n].fname =>
            \A k \in m..n : summarized[k].fname = summarized[m].fname

\* C34: the summarizer receives the facts of one file contiguously and in
\* the order in which the file's job produced them; the facts of two files
\* are never interleaved, with one worker process or several and whatever
\* order the jobs complete in
C34_FactsOfAFileContiguousInJobOrder ==
    /\ FactsOfAFileContiguous
    /\ pc \in FactsPhase \cup {"failed"} =>
          \A f \in InterestingRel :
              /\ SummarizedOf(f) # <<>> => FactsJobsOf(f) # {}
              /\ \A j \in FactsJobsOf(f) :
                    IF jobs[j].state = "ok"
                    THEN IsPrefix(SummarizedOf(f), jobs[j].result)
                    ELSE SummarizedOf(f) = <<>>
    /\ pc \in {"close", "done"} =>
          \A f \in InterestingRel :
              \A j \in FactsJobsOf(f) : SummarizedOf(f) = jobs[j].result

\* two worker processes: the second file's job completed before the first
\* file's, and the summarizer has received the four facts of the first
\* file and then the first of the two of the second
C34_Witness ==
    /\ num_procs = 2
    /\ Len(fact_finders) = 2
    /\ pc = "summarize"
    /\ idx = 2
    /\ Len(completed) = 2
    /\ completed[1] = facts_async_results[2]
    /\ Len(summarized) = 5
    /\ Len(SummarizedOf(RelA)) = 4
    /\ summarized[5].fname = RelB


\* excavate is over: it returned, raised, or was interrupted
RunOver == pc \in {"done", "failed", "interrupted"}

\* every job submitted has terminated without failure, the result of every
\* fact-finding job has been fetched, and the facts of all of them, in the
\* order of the results, have been given to the summarizer: none is left
\* in hand
AllJobsOverAllFactsDelivered ==
    /\ \A j \in JobIds : jobs[j].state = "ok" /\ jobs[j].step = "returned"
    /\ Len(facts_async_results) = Len(rel_and_log_z_fnames)
    /\ facts = <<>>
    /\ summarized =
          Join([k \in 1..Len(facts_async_results) |->
                   jobs[facts_async_results[k]].result])

\* excavate raised: a job it waited on had failed, or the summarizer
\* cannot be called
RaisedForACause ==
    \/ \E j \in JobIds : jobs[j].state = "failed"
    \/ IsNone(summarizer) /\ facts # <<>>

====
